---------------------------- MODULE Spec2Model ----------------------------
(***************************************************************************)
(* A model of the Monkey tree-walking evaluator (package evaluator) and    *)
(* its object system and environments (package object).                    *)
(*                                                                         *)
(* Every runtime object carries the address it was allocated at (field     *)
(* addr): Go compares interface values holding pointers by address, so     *)
(* `left == right` in evalInfixExpression and the switches of isTruthy and *)
(* evalBangOperator are comparisons of addresses.  An absent object (a nil *)
(* interface) is NIL; a Go run-time panic (a method call on nil, an index  *)
(* out of range, an integer division by zero) is PANIC and unwinds the     *)
(* whole evaluation.                                                       *)
(*                                                                         *)
(* The Elements of an Array are a Go slice: the address of a backing array *)
(* in the heap and a length; the capacity is the length of that backing    *)
(* array.  Two slices over one backing array share their storage.          *)
(***************************************************************************)
EXTENDS Integers, Sequences, FiniteSets, TLC

VARIABLES
    envs,      \* the environments allocated so far; envs[1] is the host's
    heap,      \* the backing arrays of the slices allocated so far
    next,      \* the address the next allocated object gets
    program,   \* the node the host handed to Eval last
    outcome,   \* what that Eval returned (NIL: an absent value)
    trace,     \* the Eval calls of that evaluation that returned, in order
    applied,   \* the objects that evaluation handed to applyFunction, in order
    status,    \* "ready", or "panicked" once an evaluation has trapped
    runs,      \* number of evaluations and parses so far
    input,     \* the tokens the host handed to the parser last
    reported   \* the errors of that parse

vars == <<envs, heap, next, program, outcome, trace, applied, status, runs, input,
          reported>>

---------------------------------------------------------------------------
(* Bounds of the model.                                                    *)

MaxRuns == 5      \* evaluations of one session
MaxCaptured == 2  \* closures capture 0 .. MaxCaptured
MaxInt == 7       \* integer operands range over -MaxInt .. MaxInt
MaxArgs == 2      \* arguments of a call, parameters of a function
MaxStatements == 2 \* statements of a generated program or block
MaxNesting == 2    \* composite nodes around a failing subexpression
MaxLen == 3        \* elements of a generated array
MaxOperators == 2  \* infix operators of a parsed chain
MaxCalls == 4      \* evaluations of a session of calls

---------------------------------------------------------------------------
(* package object: object types and the canonical objects.                 *)

INTEGER_OBJ == "INTEGER"
BOOLEAN_OBJ == "BOOLEAN"
NULL_OBJ == "NULL"
RETURN_VALUE_OBJ == "RETURN_VALUE"
ERROR_OBJ == "ERROR"
FUNCTION_OBJ == "FUNCTION"
STRING_OBJ == "STRING"
BUILTIN_OBJ == "BUILTIN"
ARRAY_OBJ == "ARRAY"

\* A nil object.Object: it has no type, and calling Type() on it panics.
NIL == [type |-> "nil", addr |-> 0]

\* The outcome of a Go run-time panic.
PANIC == [type |-> "panic", addr |-> 0]

TRUE_ == [type |-> BOOLEAN_OBJ, Value |-> TRUE, addr |-> 1]
FALSE_ == [type |-> BOOLEAN_OBJ, Value |-> FALSE, addr |-> 2]
NULL == [type |-> NULL_OBJ, addr |-> 3]

BuiltinNames == <<"len", "first", "last", "rest", "push">>

\* The address of the *object.Builtin the registry holds under a name.
BuiltinAddr(name) ==
    3 + (CHOOSE i \in 1..Len(BuiltinNames) : BuiltinNames[i] = name)

\* The first address a fresh allocation gets.
FirstAddr == 4 + Len(BuiltinNames)

Integer(value, a) == [type |-> INTEGER_OBJ, Value |-> value, addr |-> a]
String(value, a) == [type |-> STRING_OBJ, Value |-> value, addr |-> a]
ReturnValue(value, a) == [type |-> RETURN_VALUE_OBJ, Value |-> value, addr |-> a]
Error(message, a) == [type |-> ERROR_OBJ, Message |-> message, addr |-> a]
\* &object.Array{Elements: elements}, for a slice elements
Array(elements, a) == [type |-> ARRAY_OBJ, Elements |-> elements, addr |-> a]
Builtin(name) == [type |-> BUILTIN_OBJ, Name |-> name, addr |-> BuiltinAddr(name)]
Function(parameters, body, env, a) ==
    [type |-> FUNCTION_OBJ, Parameters |-> parameters, Body |-> body,
     Env |-> env, addr |-> a]

\* A nil slice: no backing array, no element.
NilSlice == [data |-> 0, len |-> 0]

\* cap(slice)
Cap(hp, slice) == IF slice.data = 0 THEN 0 ELSE Len(hp[slice.data])

\* The elements slice[0], ..., slice[len(slice)-1] as a sequence.
ElementsOf(hp, slice) == [i \in 1..slice.len |-> hp[slice.data][i]]

\* make([]object.Object, size) filled by copy and assignments with the given
\* elements: the heap after it and the slice.
Make(hp, elements) ==
    [heap |-> Append(hp, elements),
     slice |-> [data |-> Len(hp) + 1, len |-> Len(elements)]]

\* The capacity Go's append has grown a slice to that was built from nil by
\* appending n elements one at a time: it doubles from 1.
RECURSIVE Grown(_, _)
Grown(n, c) == IF n <= c THEN c ELSE Grown(n, IF c = 0 THEN 1 ELSE 2 * c)

\* The slice built from nil by appending the elements one at a time: the
\* spare capacity of its backing array holds nil.
Appended(hp, elements) ==
    IF elements = <<>> THEN [heap |-> hp, slice |-> NilSlice]
    ELSE [heap |-> Append(hp, [i \in 1..Grown(Len(elements), 0) |->
                                 IF i <= Len(elements) THEN elements[i] ELSE NIL]),
          slice |-> [data |-> Len(hp) + 1, len |-> Len(elements)]]

\* Go's == on two object.Object values: the same pointer (nil equals nil only).
SameObject(a, b) == a.type = b.type /\ a.addr = b.addr

\* fmt.Sprintf("%d", n)
Digits == <<"0", "1", "2", "3", "4", "5", "6", "7", "8", "9">>

RECURSIVE Itoa(_)
Itoa(n) ==
    IF n < 0 THEN "-" \o Itoa(0 - n)
    ELSE IF n < 10 THEN Digits[n + 1]
    ELSE Itoa(n \div 10) \o Digits[(n % 10) + 1]

---------------------------------------------------------------------------
(* package object: environments.  An environment is a record of its store  *)
(* and the index of its outer environment in envs (0: no outer).           *)

NoEnv == 0

NewEnvironment == [store |-> <<>>, outer |-> NoEnv]

NewEnclosedEnvironment(outer) == [store |-> <<>>, outer |-> outer]

\* A variant that writes into the nearest scope that has the name.
RECURSIVE Set_Walking(_, _, _, _)
Set_Walking(es, e, name, value) ==
    IF name \notin DOMAIN es[e].store /\ es[e].outer # NoEnv
    THEN Set_Walking(es, es[e].outer, name, value)
    ELSE [es EXCEPT ![e].store =
             [n \in (DOMAIN @) \cup {name} |-> IF n = name THEN value ELSE @[n]]]

\* e.store[name] = value, in the environment at index e
Set(es, e, name, value) ==
    [es EXCEPT ![e].store =
        [n \in (DOMAIN @) \cup {name} |-> IF n = name THEN value ELSE @[n]]]

\* (obj, ok) of Environment.Get
RECURSIVE Get(_, _, _)
Get(es, e, name) ==
    LET ok == name \in DOMAIN es[e].store
    IN  IF ~ok /\ es[e].outer # NoEnv
        THEN Get(es, es[e].outer, name)
        ELSE [obj |-> IF ok THEN es[e].store[name] ELSE NIL, ok |-> ok]

---------------------------------------------------------------------------
(* package evaluator: the helpers that allocate at most one object.  The   *)
(* parameter a is the address a newly allocated object gets.               *)

newError(message, a) == Error(message, a)

isError(obj) ==
    IF obj # NIL THEN obj.type = ERROR_OBJ ELSE FALSE

\* A variant that takes the Integer 0 for false as well.
isTruthy_ZeroFalsy(obj) ==
    IF SameObject(obj, TRUE_) THEN TRUE
    ELSE IF SameObject(obj, FALSE_) THEN FALSE
    ELSE IF SameObject(obj, NULL) THEN FALSE
    ELSE IF obj.type = INTEGER_OBJ THEN obj.Value # 0
    ELSE TRUE

isTruthy(obj) ==
    IF SameObject(obj, TRUE_) THEN TRUE
    ELSE IF SameObject(obj, FALSE_) THEN FALSE
    ELSE IF SameObject(obj, NULL) THEN FALSE
    ELSE TRUE

toBooleanObject(value) == IF value THEN TRUE_ ELSE FALSE_

evalBangOperator(right) ==
    IF SameObject(right, TRUE_) THEN FALSE_
    ELSE IF SameObject(right, FALSE_) THEN TRUE_
    ELSE IF SameObject(right, NULL) THEN TRUE_
    ELSE FALSE_

evalMinusOperator(right, a) ==
    IF right.type = INTEGER_OBJ THEN Integer(0 - right.Value, a)
    ELSE IF right = NIL THEN PANIC
    ELSE newError("unknown operator: -" \o right.type, a)

evalPrefixExpression(operator, right, a) ==
    CASE operator = "!" -> evalBangOperator(right)
      [] operator = "-" -> evalMinusOperator(right, a)
      [] OTHER -> NULL

Abs(n) == IF n < 0 THEN 0 - n ELSE n

\* A variant that rounds the quotient toward minus infinity.
Quo_Floor(x, y) == x \div y

\* Go's integer division: the quotient truncated toward zero.
Quo(x, y) ==
    LET q == Abs(x) \div Abs(y)
    IN  IF (x < 0) # (y < 0) THEN 0 - q ELSE q

\* A variant that intercepts a zero divisor and answers with an Error.
evalIntegerInfixExpression_ZeroChecked(operator, left, right, a) ==
    LET leftInt == left.Value
        rightInt == right.Value
    IN  CASE operator = "+" -> Integer(leftInt + rightInt, a)
          [] operator = "-" -> Integer(leftInt - rightInt, a)
          [] operator = "*" -> Integer(leftInt * rightInt, a)
          [] operator = "/" ->
                IF rightInt = 0 THEN newError("division by zero", a)
                ELSE Integer(Quo(leftInt, rightInt), a)
          [] operator = "==" -> toBooleanObject(leftInt = rightInt)
          [] operator = "!=" -> toBooleanObject(leftInt # rightInt)
          [] operator = "<" -> toBooleanObject(leftInt < rightInt)
          [] operator = ">" -> toBooleanObject(leftInt > rightInt)
          [] OTHER ->
                newError("unknown operator: " \o left.type \o " " \o operator
                         \o " " \o right.type, a)

evalIntegerInfixExpression(operator, left, right, a) ==
    LET leftInt == left.Value
        rightInt == right.Value
    IN  CASE operator = "+" -> Integer(leftInt + rightInt, a)
          [] operator = "-" -> Integer(leftInt - rightInt, a)
          [] operator = "*" -> Integer(leftInt * rightInt, a)
          [] operator = "/" ->
                IF rightInt = 0 THEN PANIC ELSE Integer(Quo(leftInt, rightInt), a)
          [] operator = "==" -> toBooleanObject(leftInt = rightInt)
          [] operator = "!=" -> toBooleanObject(leftInt # rightInt)
          [] operator = "<" -> toBooleanObject(leftInt < rightInt)
          [] operator = ">" -> toBooleanObject(leftInt > rightInt)
          [] OTHER ->
                newError("unknown operator: " \o left.type \o " " \o operator
                         \o " " \o right.type, a)

\* A variant that compares for == and != before it compares the types.
evalInfixExpression_EqualityFirst(operator, left, right, a) ==
    IF left = NIL \/ right = NIL THEN PANIC
    ELSE IF left.type = INTEGER_OBJ /\ right.type = INTEGER_OBJ
    THEN evalIntegerInfixExpression(operator, left, right, a)
    ELSE IF left.type = STRING_OBJ /\ right.type = STRING_OBJ /\ operator = "+"
    THEN String(left.Value \o right.Value, a)
    ELSE IF operator = "==" THEN toBooleanObject(SameObject(left, right))
    ELSE IF operator = "!=" THEN toBooleanObject(~SameObject(left, right))
    ELSE IF left.type # right.type
    THEN newError("type mismatch: " \o left.type \o " " \o operator
                  \o " " \o right.type, a)
    ELSE newError("unknown operator: " \o left.type \o " " \o operator
                  \o " " \o right.type, a)

evalInfixExpression(operator, left, right, a) ==
    IF left = NIL \/ right = NIL THEN PANIC
    ELSE IF left.type = INTEGER_OBJ /\ right.type = INTEGER_OBJ
    THEN evalIntegerInfixExpression(operator, left, right, a)
    ELSE IF left.type = STRING_OBJ /\ right.type = STRING_OBJ /\ operator = "+"
    THEN String(left.Value \o right.Value, a)
    ELSE IF left.type # right.type
    THEN newError("type mismatch: " \o left.type \o " " \o operator
                  \o " " \o right.type, a)
    ELSE IF operator = "==" THEN toBooleanObject(SameObject(left, right))
    ELSE IF operator = "!=" THEN toBooleanObject(~SameObject(left, right))
    ELSE newError("unknown operator: " \o left.type \o " " \o operator
                  \o " " \o right.type, a)

\* A variant without the test for a negative index: indexing the slice traps.
evalArrayIndexExpression_NoLowerBound(array, index, hp) ==
    LET idx == index.Value
        max == array.Elements.len - 1
    IN  IF idx > max THEN NULL
        ELSE IF idx < 0 THEN PANIC
        ELSE hp[array.Elements.data][idx + 1]

evalArrayIndexExpression(array, index, hp) ==
    LET idx == index.Value
        max == array.Elements.len - 1
    IN  IF idx < 0 \/ idx > max THEN NULL ELSE hp[array.Elements.data][idx + 1]

evalIndexExpression(array, index, a, hp) ==
    IF array = NIL THEN PANIC
    ELSE IF array.type = ARRAY_OBJ /\ index = NIL THEN PANIC
    ELSE IF array.type = ARRAY_OBJ /\ index.type = INTEGER_OBJ
    THEN evalArrayIndexExpression(array, index, hp)
    ELSE IF index = NIL THEN PANIC
    ELSE newError("index operator not supported: " \o index.type, a)

unwrapReturnValue(obj) ==
    IF obj.type = RETURN_VALUE_OBJ THEN obj.Value ELSE obj

---------------------------------------------------------------------------
(* package evaluator: the builtin registry.                                *)

wrongArguments(got, want, a) ==
    newError("wrong number of arguments. got=" \o Itoa(got) \o ", want="
             \o Itoa(want), a)

\* The grave accent (U+0060) of the messages below: the lexer of TLA+ has no
\* such character inside a string.
GraveAccent == "<U+0060>"

\* "argument to `<name>` not supported, got "
notSupported(name) ==
    "argument to " \o GraveAccent \o name \o GraveAccent \o " not supported, got "

\* What a builtin gives: the object it returns and the heap after it.
Gave(obj, hp) == [obj |-> obj, heap |-> hp]

builtin_len(args, a, hp) ==
    IF Len(args) # 1 THEN Gave(wrongArguments(Len(args), 1, a), hp)
    ELSE IF args[1].type = STRING_OBJ THEN Gave(Integer(Len(args[1].Value), a), hp)
    ELSE IF args[1].type = ARRAY_OBJ THEN Gave(Integer(args[1].Elements.len, a), hp)
    ELSE IF args[1] = NIL THEN Gave(PANIC, hp)
    ELSE Gave(newError(notSupported("len") \o args[1].type, a), hp)

builtin_first(args, a, hp) ==
    IF Len(args) # 1 THEN Gave(wrongArguments(Len(args), 1, a), hp)
    ELSE IF args[1].type = ARRAY_OBJ
    THEN IF args[1].Elements.len > 0
         THEN Gave(hp[args[1].Elements.data][1], hp)
         ELSE Gave(NULL, hp)
    ELSE IF args[1] = NIL THEN Gave(PANIC, hp)
    ELSE Gave(newError(notSupported("first") \o args[1].type, a), hp)

builtin_last(args, a, hp) ==
    IF Len(args) # 1 THEN Gave(wrongArguments(Len(args), 1, a), hp)
    ELSE IF args[1].type = ARRAY_OBJ
    THEN IF args[1].Elements.len > 0
         THEN Gave(hp[args[1].Elements.data][args[1].Elements.len], hp)
         ELSE Gave(NULL, hp)
    ELSE IF args[1] = NIL THEN Gave(PANIC, hp)
    ELSE Gave(newError(notSupported("last") \o args[1].type, a), hp)

\* A variant that gives the empty Array for an Array of one element.
builtin_rest_OfOne(args, a, hp) ==
    IF Len(args) # 1 THEN Gave(wrongArguments(Len(args), 1, a), hp)
    ELSE IF args[1].type = ARRAY_OBJ
    THEN LET size == args[1].Elements.len - 1
         IN  IF size >= 0
             THEN LET result == Make(hp, SubSeq(ElementsOf(hp, args[1].Elements),
                                                2, size + 1))
                  IN  Gave(Array(result.slice, a), result.heap)
             ELSE Gave(NULL, hp)
    ELSE IF args[1] = NIL THEN Gave(PANIC, hp)
    ELSE Gave(newError(notSupported("last") \o args[1].type, a), hp)

builtin_rest(args, a, hp) ==
    IF Len(args) # 1 THEN Gave(wrongArguments(Len(args), 1, a), hp)
    ELSE IF args[1].type = ARRAY_OBJ
    THEN LET size == args[1].Elements.len - 1
         IN  IF size > 0
             THEN LET result == Make(hp, SubSeq(ElementsOf(hp, args[1].Elements),
                                                2, size + 1))
                  IN  Gave(Array(result.slice, a), result.heap)
             ELSE Gave(NULL, hp)
    ELSE IF args[1] = NIL THEN Gave(PANIC, hp)
    ELSE Gave(newError(notSupported("last") \o args[1].type, a), hp)

\* A variant that appends to the Elements of its argument, as Go's append
\* does: in place where the backing array has spare capacity.
builtin_push_Append(args, a, hp) ==
    IF Len(args) # 2 THEN Gave(wrongArguments(Len(args), 2, a), hp)
    ELSE IF args[1].type = ARRAY_OBJ
    THEN LET slice == args[1].Elements
         IN  IF slice.len < Cap(hp, slice)
             THEN Gave(Array([slice EXCEPT !.len = @ + 1], a),
                       [hp EXCEPT ![slice.data][slice.len + 1] = args[2]])
             ELSE LET result == Appended(hp, Append(ElementsOf(hp, slice), args[2]))
                  IN  Gave(Array(result.slice, a), result.heap)
    ELSE IF args[1] = NIL THEN Gave(PANIC, hp)
    ELSE Gave(newError(notSupported("last") \o args[1].type, a), hp)

builtin_push(args, a, hp) ==
    IF Len(args) # 2 THEN Gave(wrongArguments(Len(args), 2, a), hp)
    ELSE IF args[1].type = ARRAY_OBJ
    THEN LET result == Make(hp, Append(ElementsOf(hp, args[1].Elements), args[2]))
         IN  Gave(Array(result.slice, a), result.heap)
    ELSE IF args[1] = NIL THEN Gave(PANIC, hp)
    ELSE Gave(newError(notSupported("last") \o args[1].type, a), hp)

\* builtins[name].Fn(args...)
builtins(name, args, a, hp) ==
    CASE name = "len" -> builtin_len(args, a, hp)
      [] name = "first" -> builtin_first(args, a, hp)
      [] name = "last" -> builtin_last(args, a, hp)
      [] name = "rest" -> builtin_rest(args, a, hp)
      [] name = "push" -> builtin_push(args, a, hp)

isBuiltin(name) == \E i \in 1..Len(BuiltinNames) : BuiltinNames[i] = name

---------------------------------------------------------------------------
(* package evaluator: Eval.  An evaluation threads the machine state       *)
(* st = [envs, heap, next, trace, applied] and yields [val, st, panic].    *)

Done(obj, st) == [val |-> obj, st |-> st, panic |-> FALSE]

Trap(st) == [val |-> NIL, st |-> st, panic |-> TRUE]

\* The outcome of a helper that was handed st.next as its fresh address.
Made(obj, st) ==
    IF obj = PANIC THEN Trap(st) ELSE Done(obj, [st EXCEPT !.next = @ + 1])

\* The record the trace keeps of an Eval call that returned.
Visit(node, env, r) ==
    IF r.panic THEN r
    ELSE [r EXCEPT !.st.trace = Append(@, [node |-> node, env |-> env, val |-> r.val])]

\* The loop of extendFunctionEnv over the parameters, from paramIdx on: it
\* panics when a parameter has no argument at its position.
RECURSIVE bindParameters(_, _, _, _, _)

\* A variant that leaves the parameters without an argument unbound.
bindParameters_Checked(es, e, parameters, args, paramIdx) ==
    IF paramIdx > Len(parameters) \/ paramIdx > Len(args)
    THEN [envs |-> es, env |-> e, panic |-> FALSE]
    ELSE bindParameters(Set(es, e, parameters[paramIdx].Value, args[paramIdx]),
                        e, parameters, args, paramIdx + 1)

bindParameters(es, e, parameters, args, paramIdx) ==
    IF paramIdx > Len(parameters) THEN [envs |-> es, env |-> e, panic |-> FALSE]
    ELSE IF paramIdx > Len(args) THEN [envs |-> es, env |-> e, panic |-> TRUE]
    ELSE bindParameters(Set(es, e, parameters[paramIdx].Value, args[paramIdx]),
                        e, parameters, args, paramIdx + 1)

\* A variant that binds the parameters in the function's own environment.
extendFunctionEnv_Shared(fn, args, es) ==
    bindParameters(es, fn.Env, fn.Parameters, args, 1)

\* extendFunctionEnv: the environments after it, and the index of the new one.
extendFunctionEnv(fn, args, es) ==
    bindParameters(Append(es, NewEnclosedEnvironment(fn.Env)), Len(es) + 1,
                   fn.Parameters, args, 1)

RECURSIVE Eval(_, _, _)
RECURSIVE evalProgram(_, _, _, _, _)
RECURSIVE evalStatements(_, _, _, _, _)
RECURSIVE evalExpressions(_, _, _, _, _)
RECURSIVE applyFunction(_, _, _)

applyFunction(function, args, st0) ==
    LET st == [st0 EXCEPT !.applied = Append(@, [function |-> function, args |-> args])]
    IN  IF function.type = FUNCTION_OBJ
        THEN LET ext == extendFunctionEnv(function, args, st.envs)
             IN  IF ext.panic
                 THEN \* the new environment and the bindings made so far exist
                      Trap([st EXCEPT !.envs = ext.envs])
                 ELSE LET r == Eval(function.Body, ext.env,
                                    [st EXCEPT !.envs = ext.envs])
                      IN  IF r.panic THEN r
                          ELSE Done(unwrapReturnValue(r.val), r.st)
        ELSE IF function.type = BUILTIN_OBJ
        THEN LET gave == builtins(function.Name, args, st.next, st.heap)
             IN  Made(gave.obj, [st EXCEPT !.heap = gave.heap])
        ELSE IF function = NIL THEN Trap(st)
        ELSE Made(newError("not a function: " \o function.type, st.next), st)

\* The loop of evalExpressions from expression i on; result holds the
\* objects of the expressions before i.
evalExpressions(expressions, i, env, st, result) ==
    IF i > Len(expressions) THEN [vals |-> result, st |-> st, panic |-> FALSE]
    ELSE LET r == Eval(expressions[i], env, st)
         IN  IF r.panic THEN [vals |-> <<>>, st |-> r.st, panic |-> TRUE]
             ELSE IF isError(r.val)
             THEN [vals |-> <<r.val>>, st |-> r.st, panic |-> FALSE]
             ELSE evalExpressions(expressions, i + 1, env, r.st,
                                  Append(result, r.val))

\* A variant without the case for *object.Error.
evalProgram_PastError(statements, i, env, st, result) ==
    IF i > Len(statements) THEN Done(result, st)
    ELSE LET r == Eval(statements[i], env, st)
         IN  IF r.panic THEN r
             ELSE IF r.val.type = RETURN_VALUE_OBJ THEN Done(r.val.Value, r.st)
             ELSE evalProgram(statements, i + 1, env, r.st, r.val)

\* The loop of evalProgram from statement i on; result is the object of the
\* statement before i (NIL before the first).
evalProgram(statements, i, env, st, result) ==
    IF i > Len(statements) THEN Done(result, st)
    ELSE LET r == Eval(statements[i], env, st)
         IN  IF r.panic THEN r
             ELSE IF r.val.type = RETURN_VALUE_OBJ THEN Done(r.val.Value, r.st)
             ELSE IF r.val.type = ERROR_OBJ THEN r
             ELSE evalProgram(statements, i + 1, env, r.st, r.val)

\* The loop of evalStatements, likewise.
evalStatements(statements, i, env, st, result) ==
    IF i > Len(statements) THEN Done(result, st)
    ELSE LET r == Eval(statements[i], env, st)
         IN  IF r.panic THEN r
             ELSE IF r.val # NIL
                     /\ (r.val.type = RETURN_VALUE_OBJ \/ r.val.type = ERROR_OBJ)
             THEN r
             ELSE evalStatements(statements, i + 1, env, r.st, r.val)

EvalPrefixExpression(node, env, st) ==
    LET right == Eval(node.Right, env, st)
    IN  IF right.panic \/ isError(right.val) THEN right
        ELSE Made(evalPrefixExpression(node.Operator, right.val, right.st.next),
                  right.st)

\* A variant that evaluates the right operand before it looks at the left.
EvalInfixExpression_BothFirst(node, env, st) ==
    LET left == Eval(node.Left, env, st)
    IN  IF left.panic THEN left
        ELSE LET right == Eval(node.Right, env, left.st)
             IN  IF right.panic THEN right
                 ELSE IF isError(left.val) THEN Done(left.val, right.st)
                 ELSE IF isError(right.val) THEN right
                 ELSE Made(evalInfixExpression(node.Operator, left.val, right.val,
                                               right.st.next), right.st)

EvalInfixExpression(node, env, st) ==
    LET left == Eval(node.Left, env, st)
    IN  IF left.panic \/ isError(left.val) THEN left
        ELSE LET right == Eval(node.Right, env, left.st)
             IN  IF right.panic \/ isError(right.val) THEN right
                 ELSE Made(evalInfixExpression(node.Operator, left.val, right.val,
                                               right.st.next), right.st)

EvalIfExpression(node, env, st) ==
    LET condition == Eval(node.Condition, env, st)
    IN  IF condition.panic \/ isError(condition.val) THEN condition
        ELSE IF isTruthy(condition.val)
        THEN Eval(node.Consequence, env, condition.st)
        ELSE IF node.Alternative.kind # "nil"
        THEN Eval(node.Alternative, env, condition.st)
        ELSE Done(NULL, condition.st)

EvalReturnStatement(node, env, st) ==
    LET value == Eval(node.ReturnValue, env, st)
    IN  IF value.panic \/ isError(value.val) THEN value
        ELSE Made(ReturnValue(value.val, value.st.next), value.st)

EvalLetStatement(node, env, st) ==
    LET value == Eval(node.Value, env, st)
    IN  IF value.panic \/ isError(value.val) THEN value
        ELSE Done(NULL, [value.st EXCEPT
                            !.envs = Set(@, env, node.Name.Value, value.val)])

\* A variant that consults the builtin registry before the environment.
EvalIdentifier_BuiltinFirst(node, env, st) ==
    LET got == Get(st.envs, env, node.Value)
    IN  IF isBuiltin(node.Value) THEN Done(Builtin(node.Value), st)
        ELSE IF got.ok THEN Done(got.obj, st)
        ELSE Made(newError("identifier not found: " \o node.Value, st.next), st)

EvalIdentifier(node, env, st) ==
    LET got == Get(st.envs, env, node.Value)
    IN  IF got.ok THEN Done(got.obj, st)
        ELSE IF isBuiltin(node.Value) THEN Done(Builtin(node.Value), st)
        ELSE Made(newError("identifier not found: " \o node.Value, st.next), st)

EvalCallExpression(node, env, st) ==
    LET function == Eval(node.Function, env, st)
    IN  IF function.panic \/ isError(function.val) THEN function
        ELSE LET args == evalExpressions(node.Arguments, 1, env, function.st, <<>>)
             IN  IF args.panic THEN Trap(args.st)
                 ELSE applyFunction(function.val, args.vals, args.st)

EvalArrayLiteral(node, env, st) ==
    LET elements == evalExpressions(node.Elements, 1, env, st, <<>>)
    IN  IF elements.panic THEN Trap(elements.st)
        ELSE IF Len(elements.vals) = 1 /\ isError(elements.vals[1])
        THEN Done(elements.vals[1], elements.st)
        ELSE LET slice == Appended(elements.st.heap, elements.vals)
             IN  Made(Array(slice.slice, elements.st.next),
                      [elements.st EXCEPT !.heap = slice.heap])

EvalIndexExpression(node, env, st) ==
    LET array == Eval(node.Left, env, st)
    IN  IF array.panic \/ isError(array.val) THEN array
        ELSE LET index == Eval(node.Index, env, array.st)
             IN  IF index.panic \/ isError(index.val) THEN index
                 ELSE Made(evalIndexExpression(array.val, index.val, index.st.next,
                                               index.st.heap), index.st)

Eval(node, env, st) ==
    Visit(node, env,
      CASE node.kind = "Program" -> evalProgram(node.Statements, 1, env, st, NIL)
        [] node.kind = "ExpressionStatement" -> Eval(node.Expression, env, st)
        [] node.kind = "IntegerLiteral" -> Made(Integer(node.Value, st.next), st)
        [] node.kind = "Boolean" -> Done(toBooleanObject(node.Value), st)
        [] node.kind = "PrefixExpression" -> EvalPrefixExpression(node, env, st)
        [] node.kind = "InfixExpression" -> EvalInfixExpression(node, env, st)
        [] node.kind = "BlockStatement" ->
              evalStatements(node.Statements, 1, env, st, NIL)
        [] node.kind = "IfExpression" -> EvalIfExpression(node, env, st)
        [] node.kind = "ReturnStatement" -> EvalReturnStatement(node, env, st)
        [] node.kind = "LetStatement" -> EvalLetStatement(node, env, st)
        [] node.kind = "Identifier" -> EvalIdentifier(node, env, st)
        [] node.kind = "FunctionLiteral" ->
              Made(Function(node.Parameters, node.Body, env, st.next), st)
        [] node.kind = "CallExpression" -> EvalCallExpression(node, env, st)
        [] node.kind = "StringLiteral" -> Made(String(node.Value, st.next), st)
        [] node.kind = "ArrayLiteral" -> EvalArrayLiteral(node, env, st)
        [] node.kind = "IndexExpression" -> EvalIndexExpression(node, env, st)
        [] OTHER -> Done(NULL, st))

---------------------------------------------------------------------------
(* package ast: the nodes.  A node is a record of its kind and its fields. *)

NoNode == [kind |-> "nil"]

Program(statements) == [kind |-> "Program", Statements |-> statements]
ExpressionStatement(e) == [kind |-> "ExpressionStatement", Expression |-> e]
LetStatement(name, value) ==
    [kind |-> "LetStatement", Name |-> [kind |-> "Identifier", Value |-> name],
     Value |-> value]
ReturnStatement(value) == [kind |-> "ReturnStatement", ReturnValue |-> value]
BlockStatement(statements) == [kind |-> "BlockStatement", Statements |-> statements]
Identifier(name) == [kind |-> "Identifier", Value |-> name]
IntegerLiteral(n) == [kind |-> "IntegerLiteral", Value |-> n]
BooleanLiteral(b) == [kind |-> "Boolean", Value |-> b]
StringLiteral(s) == [kind |-> "StringLiteral", Value |-> s]
ArrayLiteral(elements) == [kind |-> "ArrayLiteral", Elements |-> elements]
PrefixExpression(operator, right) ==
    [kind |-> "PrefixExpression", Operator |-> operator, Right |-> right]
InfixExpression(left, operator, right) ==
    [kind |-> "InfixExpression", Left |-> left, Operator |-> operator,
     Right |-> right]
IfExpression(condition, consequence, alternative) ==
    [kind |-> "IfExpression", Condition |-> condition,
     Consequence |-> consequence, Alternative |-> alternative]
FunctionLiteral(parameters, body) ==
    [kind |-> "FunctionLiteral",
     Parameters |-> [i \in 1..Len(parameters) |-> Identifier(parameters[i])],
     Body |-> body]
CallExpression(function, arguments) ==
    [kind |-> "CallExpression", Function |-> function, Arguments |-> arguments]
IndexExpression(left, index) ==
    [kind |-> "IndexExpression", Left |-> left, Index |-> index]

---------------------------------------------------------------------------
(* The host: it evaluates one node after another against its environment.  *)

GlobalEnv == 1

Init ==
    /\ envs = <<NewEnvironment>>
    /\ heap = <<>>
    /\ next = FirstAddr
    /\ program = NIL
    /\ outcome = NIL
    /\ trace = <<>>
    /\ applied = <<>>
    /\ status = "ready"
    /\ runs = 0
    /\ input = <<>>
    /\ reported = <<>>

\* result = Eval(node, env), for the host's environment env
Run(node) ==
    /\ status = "ready"
    /\ runs < MaxRuns
    /\ LET r == Eval(node, GlobalEnv,
                     [envs |-> envs, heap |-> heap, next |-> next, trace |-> <<>>,
                      applied |-> <<>>])
       IN  /\ envs' = r.st.envs
           /\ heap' = r.st.heap
           /\ applied' = r.st.applied
           /\ next' = r.st.next
           /\ trace' = r.st.trace
           /\ outcome' = r.val
           /\ status' = IF r.panic THEN "panicked" ELSE "ready"
    /\ program' = node
    /\ runs' = runs + 1
    /\ UNCHANGED <<input, reported>>

---------------------------------------------------------------------------
(* Calls whose arguments may fail (C1).                                    *)

ParameterName(i) == "p" \o Itoa(i)

UndefinedName(i) == "undefined" \o Itoa(i)

ArgumentForms == {"integer", "string", "undefined"}

\* Argument i of the given form; an undefined identifier evaluates to an Error.
Argument(form, i) ==
    CASE form = "integer" -> IntegerLiteral(i)
      [] form = "string" -> StringLiteral("s" \o Itoa(i))
      [] form = "undefined" -> Identifier(UndefinedName(i))

Arguments(forms) == [i \in 1..Len(forms) |-> Argument(forms[i], i)]

\* fn(p1, ..., pk) { 5 }   and   fn(p1, ..., pk) { p1 }
ConstantFunction(k) ==
    FunctionLiteral([i \in 1..k |-> ParameterName(i)],
                    BlockStatement(<<ExpressionStatement(IntegerLiteral(5))>>))

FirstParameterFunction(k) ==
    FunctionLiteral([i \in 1..k |-> ParameterName(i)],
                    BlockStatement(<<ExpressionStatement(Identifier(ParameterName(1)))>>))

CallProgram(callee, forms) ==
    Program(<<ExpressionStatement(CallExpression(callee, Arguments(forms)))>>)

ArgumentLists == UNION {[1..n -> ArgumentForms] : n \in 0..MaxArgs}

CallFunction ==
    \E k \in 0..MaxArgs, forms \in ArgumentLists :
        runs = 0 /\ Run(CallProgram(ConstantFunction(k), forms))

CallFunctionOfParameter ==
    \E k \in 1..MaxArgs, forms \in ArgumentLists :
        runs = 0 /\ Run(CallProgram(FirstParameterFunction(k), forms))

CallBuiltin ==
    \E i \in 1..Len(BuiltinNames), forms \in ArgumentLists :
        runs = 0 /\ Run(CallProgram(Identifier(BuiltinNames[i]), forms))

NextCall == CallFunction \/ CallFunctionOfParameter \/ CallBuiltin

SpecCall == Init /\ [][NextCall]_vars

TheCall == program.Statements[1].Expression

FailingArguments ==
    {i \in 1..Len(TheCall.Arguments) : TheCall.Arguments[i].kind = "Identifier"}

FirstFailing == CHOOSE i \in FailingArguments : \A j \in FailingArguments : i <= j

\* Equality of nodes, kind first: fields of one name hold values of
\* different sorts in nodes of different kinds.
RECURSIVE SameNode(_, _)
SameNodes(a, b) ==
    Len(a) = Len(b) /\ \A i \in 1..Len(a) : SameNode(a[i], b[i])

SameNode(a, b) ==
    /\ a.kind = b.kind
    /\ CASE a.kind \in {"IntegerLiteral", "Identifier", "Boolean", "StringLiteral"} ->
                a.Value = b.Value
         [] a.kind \in {"Program", "BlockStatement"} ->
                SameNodes(a.Statements, b.Statements)
         [] a.kind = "ExpressionStatement" -> SameNode(a.Expression, b.Expression)
         [] a.kind = "LetStatement" ->
                SameNode(a.Name, b.Name) /\ SameNode(a.Value, b.Value)
         [] a.kind = "ReturnStatement" -> SameNode(a.ReturnValue, b.ReturnValue)
         [] a.kind = "PrefixExpression" ->
                a.Operator = b.Operator /\ SameNode(a.Right, b.Right)
         [] a.kind = "InfixExpression" ->
                /\ a.Operator = b.Operator
                /\ SameNode(a.Left, b.Left) /\ SameNode(a.Right, b.Right)
         [] a.kind = "IfExpression" ->
                /\ SameNode(a.Condition, b.Condition)
                /\ SameNode(a.Consequence, b.Consequence)
                /\ SameNode(a.Alternative, b.Alternative)
         [] a.kind = "FunctionLiteral" ->
                SameNodes(a.Parameters, b.Parameters) /\ SameNode(a.Body, b.Body)
         [] a.kind = "CallExpression" ->
                SameNode(a.Function, b.Function) /\ SameNodes(a.Arguments, b.Arguments)
         [] a.kind = "ArrayLiteral" -> SameNodes(a.Elements, b.Elements)
         [] a.kind = "IndexExpression" ->
                SameNode(a.Left, b.Left) /\ SameNode(a.Index, b.Index)
         [] OTHER -> TRUE

Evaluated(node) == \E t \in 1..Len(trace) : SameNode(trace[t].node, node)

\* C1: when an argument of a call evaluates to an Error, the arguments after
\* it are not evaluated, the callee is not applied, and the value of the call
\* is that Error, for user functions and builtins of every parameter count.
C1_ArgumentErrorAbortsCall ==
    (runs = 1 /\ FailingArguments # {}) =>
        /\ status = "ready"
        /\ outcome.type = ERROR_OBJ
        /\ outcome.Message = "identifier not found: " \o UndefinedName(FirstFailing)
        /\ \A j \in 1..Len(TheCall.Arguments) :
              j > FirstFailing => ~Evaluated(TheCall.Arguments[j])
        /\ applied = <<>>

---------------------------------------------------------------------------
(* Programs and blocks of few statements, some of them empty (C2).         *)

EmptyBlock == BlockStatement(<<>>)

Call(callee) == CallExpression(callee, <<>>)

\* The statements the programs below are made of.
StatementPool ==
    << ExpressionStatement(IntegerLiteral(5)),
       LetStatement("a", IntegerLiteral(5)),
       ReturnStatement(IntegerLiteral(1)),
       ExpressionStatement(IfExpression(BooleanLiteral(TRUE), EmptyBlock, NoNode)),
       ExpressionStatement(IfExpression(BooleanLiteral(FALSE), EmptyBlock, NoNode)),
       ExpressionStatement(IfExpression(BooleanLiteral(FALSE), EmptyBlock, EmptyBlock)),
       ExpressionStatement(Call(FunctionLiteral(<<>>, EmptyBlock))),
       ExpressionStatement(PrefixExpression("!", Call(FunctionLiteral(<<>>, EmptyBlock)))),
       ExpressionStatement(Identifier("undefined")) >>

StatementLists == UNION {[1..n -> 1..Len(StatementPool)] : n \in 0..MaxStatements}

Statements(choice) == [i \in 1..Len(choice) |-> StatementPool[choice[i]]]

EvalProgramOf == \E choice \in StatementLists : runs = 0 /\ Run(Program(Statements(choice)))

EvalBlockOf == \E choice \in StatementLists : runs = 0 /\ Run(BlockStatement(Statements(choice)))

EvalCallOf ==
    \E choice \in StatementLists :
        runs = 0 /\ Run(Call(FunctionLiteral(<<>>, BlockStatement(Statements(choice)))))

NextStatements == EvalProgramOf \/ EvalBlockOf \/ EvalCallOf

SpecStatements == Init /\ [][NextStatements]_vars

\* C2: Eval never returns an absent value: an empty program, an empty block
\* and a call of a function with an empty body yield the canonical Null.
C2_EvalNeverAbsent ==
    (runs = 1 /\ status = "ready") =>
        /\ outcome # NIL
        /\ \A t \in 1..Len(trace) : trace[t].val # NIL

---------------------------------------------------------------------------
(* A failing subexpression inside composite nodes (C3).                    *)

\* The sibling that comes after the failing subexpression.
Marker == IntegerLiteral(99)

ErrorSources == {"identifier", "mismatch", "minus", "call", "index"}

\* An expression that evaluates to an Error, and the message of that Error.
ErrorSource(source) ==
    CASE source = "identifier" -> Identifier("undefined")
      [] source = "mismatch" ->
            InfixExpression(IntegerLiteral(1), "+", BooleanLiteral(TRUE))
      [] source = "minus" -> PrefixExpression("-", BooleanLiteral(TRUE))
      [] source = "call" -> CallExpression(IntegerLiteral(1), <<>>)
      [] source = "index" -> IndexExpression(IntegerLiteral(1), IntegerLiteral(0))

ErrorMessage(source) ==
    CASE source = "identifier" -> "identifier not found: undefined"
      [] source = "mismatch" -> "type mismatch: INTEGER + BOOLEAN"
      [] source = "minus" -> "unknown operator: -BOOLEAN"
      [] source = "call" -> "not a function: INTEGER"
      [] source = "index" -> "index operator not supported: INTEGER"

Positions ==
    {"minus", "bang", "left", "right", "condition", "callee", "first element",
     "later element", "receiver", "index"}

\* The composite node that has e at the given position.
Around(position, e) ==
    CASE position = "minus" -> PrefixExpression("-", e)
      [] position = "bang" -> PrefixExpression("!", e)
      [] position = "left" -> InfixExpression(e, "+", Marker)
      [] position = "right" -> InfixExpression(IntegerLiteral(1), "+", e)
      [] position = "condition" ->
            IfExpression(e, BlockStatement(<<ExpressionStatement(Marker)>>),
                         BlockStatement(<<ExpressionStatement(Marker)>>))
      [] position = "callee" -> CallExpression(e, <<Marker>>)
      [] position = "first element" -> ArrayLiteral(<<e, Marker>>)
      [] position = "later element" -> ArrayLiteral(<<IntegerLiteral(1), e, Marker>>)
      [] position = "receiver" -> IndexExpression(e, Marker)
      [] position = "index" -> IndexExpression(ArrayLiteral(<<IntegerLiteral(1)>>), e)

\* e inside the composite nodes of the given positions, innermost last.
RECURSIVE Nested(_, _)
Nested(positions, e) ==
    IF positions = <<>> THEN e
    ELSE Around(Head(positions), Nested(Tail(positions), e))

Nestings == UNION {[1..n -> Positions] : n \in 0..MaxNesting}

FailInExpression ==
    \E source \in ErrorSources, positions \in Nestings :
        /\ runs = 0
        /\ Run(Program(<<ExpressionStatement(Nested(positions, ErrorSource(source)))>>))

FailInLet ==
    \E source \in ErrorSources, positions \in Nestings :
        /\ runs = 0
        /\ Run(Program(<<LetStatement("v", Nested(positions, ErrorSource(source)))>>))

FailInReturn ==
    \E source \in ErrorSources, positions \in Nestings :
        /\ runs = 0
        /\ Run(Program(<<ReturnStatement(Nested(positions, ErrorSource(source)))>>))

NextFail == FailInExpression \/ FailInLet \/ FailInReturn

SpecFail == Init /\ [][NextFail]_vars

\* The Eval calls that returned an Error.
Failed == {t \in 1..Len(trace) : isError(trace[t].val)}

FirstFailed == CHOOSE t \in Failed : \A u \in Failed : t <= u

\* C3: an Error a subexpression yields (prefix operand, infix operand, if
\* condition, let value, return value, callee, array element, index receiver,
\* index expression) is the value of every node around it, the very same
\* object; no sibling after it is evaluated and a let binds nothing.
C3_ErrorPropagatesUnchanged ==
    runs = 1 =>
        /\ status = "ready"
        /\ Failed # {}
        /\ \A t \in FirstFailed..Len(trace) : SameObject(trace[t].val, trace[FirstFailed].val)
        /\ SameObject(outcome, trace[FirstFailed].val)
        /\ outcome.Message \in {ErrorMessage(source) : source \in ErrorSources}
        /\ ~Evaluated(Marker)
        /\ DOMAIN envs[GlobalEnv].store = {}

\* The Error of an undefined identifier has come up through an array
\* literal, an infix expression and a let statement.
C3_Witness ==
    /\ runs = 1
    /\ program.Statements[1].kind = "LetStatement"
    /\ program.Statements[1].Value.kind = "InfixExpression"
    /\ program.Statements[1].Value.Left.kind = "ArrayLiteral"
    /\ outcome.type = ERROR_OBJ
    /\ outcome.Message = "identifier not found: undefined"
    /\ Len(trace) = 5

---------------------------------------------------------------------------
(* A return inside nested blocks of a function body (C4).                  *)

\* The statement after the return, or after the if that holds it, in the
\* block i levels above the return.
After(i) == ExpressionStatement(IntegerLiteral(90 + i))

Returned == {"literal", "parameter", "sum", "wrapped"}

\* The expression E of `return E;`.
ReturnedExpression(form) ==
    CASE form = "literal" -> IntegerLiteral(7)
      [] form = "parameter" -> Identifier(ParameterName(1))
      [] form = "sum" ->
            InfixExpression(Identifier(ParameterName(1)), "+", IntegerLiteral(1))
      [] form = "wrapped" ->
            IfExpression(BooleanLiteral(TRUE),
                         BlockStatement(<<ReturnStatement(IntegerLiteral(7))>>), NoNode)

\* { if (true) { ... { return e; after0 } ... } afterN }, the return in the
\* consequence ("then") or the alternative ("else") of an if that is a
\* statement of the block, or in the consequence of an if that is the value
\* of a let statement of the block ("let").
RECURSIVE Body(_, _)
Body(branches, e) ==
    IF branches = <<>> THEN BlockStatement(<<ReturnStatement(e), After(0)>>)
    ELSE LET inner == Body(Tail(branches), e)
             held == IF Head(branches) = "else"
                     THEN IfExpression(BooleanLiteral(FALSE),
                                       BlockStatement(<<After(Len(branches))>>), inner)
                     ELSE IfExpression(BooleanLiteral(TRUE), inner, NoNode)
         IN  BlockStatement(
               << IF Head(branches) = "let" THEN LetStatement("q", held)
                  ELSE ExpressionStatement(held),
                  After(Len(branches)) >>)

Branchings == UNION {[1..n -> {"then", "else", "let"}] : n \in 0..MaxNesting}

\* fn(p1) { body }(a)
Returning(branches, form, a) ==
    CallExpression(FunctionLiteral(<<ParameterName(1)>>,
                                   Body(branches, ReturnedExpression(form))),
                   <<IntegerLiteral(a)>>)

\* let r = fn(p1) { ... }(a); r
ReturnToProgram ==
    \E branches \in Branchings, form \in Returned, a \in -MaxInt..MaxInt :
        /\ runs = 0
        /\ Run(Program(<< LetStatement("r", Returning(branches, form, a)),
                          ExpressionStatement(Identifier("r")) >>))

\* fn() { let r = fn(p1) { ... }(a); r }()
ReturnToFunction ==
    \E branches \in Branchings, form \in Returned, a \in -MaxInt..MaxInt :
        /\ runs = 0
        /\ Run(Program(<< ExpressionStatement(Call(FunctionLiteral(<<>>,
                 BlockStatement(<< LetStatement("r", Returning(branches, form, a)),
                                   ExpressionStatement(Identifier("r")) >>)))) >>))

NextReturn == ReturnToProgram \/ ReturnToFunction

SpecReturn == Init /\ [][NextReturn]_vars

\* The Eval calls of the return statements executed.
Returns == {t \in 1..Len(trace) : trace[t].node.kind = "ReturnStatement"}

LastReturn == CHOOSE t \in Returns : \A u \in Returns : u <= t

\* The Eval call of the call that owns the body of the return at t: the
\* first call to return after the return statement.
CallsAfter(t) == {u \in t..Len(trace) : trace[u].node.kind = "CallExpression"}

OwningCall(t) == CHOOSE u \in CallsAfter(t) : \A v \in CallsAfter(t) : u <= v

\* The argument a of the call, and the integer the E of the function's own
\* return evaluates to.
ArgumentOf(call) == call.Arguments[1].Value

ExpectedOf(call) ==
    LET e == trace[LastReturn].node.ReturnValue
    IN  CASE e.kind = "IntegerLiteral" -> 7
          [] e.kind = "Identifier" -> ArgumentOf(call)
          [] e.kind = "InfixExpression" -> ArgumentOf(call) + 1
          [] e.kind = "IfExpression" -> 7

\* The return at t wraps the value of its E, every Eval call that ends
\* between it and the owning call is that of an enclosing block or if and
\* yields this ReturnValue, and the owning call yields the value of E, which
\* is no ReturnValue.
Unwinds(t) ==
    /\ trace[t].val.type = RETURN_VALUE_OBJ
    /\ SameObject(trace[t].val.Value, trace[t - 1].val)
    /\ CallsAfter(t) # {}
    /\ \A u \in (t + 1)..(OwningCall(t) - 1) :
          /\ trace[u].node.kind \in {"BlockStatement", "IfExpression", "ExpressionStatement"}
          /\ SameObject(trace[u].val, trace[t].val)
    /\ SameObject(trace[OwningCall(t)].val, trace[t - 1].val)
    /\ trace[OwningCall(t)].val.type # RETURN_VALUE_OBJ

\* The ifs that hold a return are statements of their blocks, none the
\* value of a let statement or of another return.
PlainPlaces ==
    /\ \A t \in 1..Len(trace) :
          trace[t].node.kind = "LetStatement" => trace[t].node.Value.kind # "IfExpression"
    /\ \A t \in Returns : trace[t].node.ReturnValue.kind # "IfExpression"

\* C4: after a `return E;` executed inside nested blocks of a function body no
\* later statement of an enclosing block is evaluated, every enclosing block
\* and if yields the ReturnValue itself, the call that owns the body yields
\* the value of E, unwrapped once, and the caller goes on with its next
\* statement.
C4_ReturnUnwindsToCall ==
    runs = 1 =>
        /\ status = "ready"
        /\ Returns # {}
        /\ \A t \in Returns : Unwinds(t)
        /\ \A t \in 1..Len(trace) :
              trace[t].node.kind = "IntegerLiteral" => trace[t].node.Value < 90
        /\ trace[OwningCall(LastReturn) + 1].node.kind = "LetStatement"
        /\ trace[OwningCall(LastReturn) + 2].node.kind = "Identifier"
        /\ SameObject(trace[OwningCall(LastReturn) + 2].val,
                      trace[OwningCall(LastReturn)].val)
        /\ outcome.type = INTEGER_OBJ
        /\ outcome.Value = ExpectedOf(trace[OwningCall(LastReturn)].node)

\* In such places the return unwinds to its call as stated.
ReturnUnwindsFromPlainPlaces == PlainPlaces => C4_ReturnUnwindsToCall

---------------------------------------------------------------------------
(* Programs that return or fail at their top level (C5).                   *)

TopLevelForms == {"expression", "let", "return", "nested return", "error", "if"}

VariableName(i) == "v" \o Itoa(i)

\* Statement i of a program; the integers in it tell the statements apart.
TopLevel(form, i) ==
    CASE form = "expression" -> ExpressionStatement(IntegerLiteral(10 * i))
      [] form = "let" -> LetStatement(VariableName(i), IntegerLiteral(10 * i))
      [] form = "return" -> ReturnStatement(IntegerLiteral(10 * i + 1))
      [] form = "nested return" ->
            ExpressionStatement(
              IfExpression(InfixExpression(IntegerLiteral(10), ">", IntegerLiteral(1)),
                BlockStatement(
                  << ExpressionStatement(
                       IfExpression(
                         InfixExpression(IntegerLiteral(10), ">", IntegerLiteral(1)),
                         BlockStatement(<<ReturnStatement(IntegerLiteral(10 * i + 2))>>),
                         NoNode)),
                     ReturnStatement(IntegerLiteral(10 * i + 3)) >>),
                NoNode))
      [] form = "error" -> ExpressionStatement(Identifier(UndefinedName(i)))
      [] form = "if" ->
            ExpressionStatement(
              IfExpression(BooleanLiteral(FALSE),
                           BlockStatement(<<ExpressionStatement(IntegerLiteral(10 * i + 4))>>),
                           NoNode))

TopLevelLists == UNION {[1..n -> TopLevelForms] : n \in 1..(MaxStatements + 1)}

TopLevels(forms) == [i \in 1..Len(forms) |-> TopLevel(forms[i], i)]

EvalTopLevel ==
    \E forms \in TopLevelLists :
        /\ runs = 0
        /\ Run(Program(TopLevels(forms)))

\* The same statements evaluated as a block: nothing is unwrapped.
EvalTopLevelBlock ==
    \E forms \in TopLevelLists :
        /\ runs = 0
        /\ Run(BlockStatement(TopLevels(forms)))

NextProgram == EvalTopLevel \/ EvalTopLevelBlock

SpecProgram == Init /\ [][NextProgram]_vars

\* What statement i of the program is, read off the node.
FormOf(statement) ==
    CASE statement.kind = "LetStatement" -> "let"
      [] statement.kind = "ReturnStatement" -> "return"
      [] statement.kind = "ExpressionStatement" ->
            CASE statement.Expression.kind = "IntegerLiteral" -> "expression"
              [] statement.Expression.kind = "Identifier" -> "error"
              [] statement.Expression.kind = "IfExpression" ->
                    IF statement.Expression.Condition.kind = "Boolean"
                    THEN "if" ELSE "nested return"

Stopping ==
    {i \in 1..Len(program.Statements) :
        FormOf(program.Statements[i]) \in {"return", "nested return", "error"}}

\* The last statement the program gets to.
LastReached ==
    IF Stopping = {} THEN Len(program.Statements)
    ELSE CHOOSE i \in Stopping : \A j \in Stopping : i <= j

\* The Eval call of statement i.
CallOf(i) == CHOOSE t \in 1..Len(trace) : SameNode(trace[t].node, program.Statements[i])

\* C5: a program evaluates its statements in order up to the first that
\* yields a ReturnValue or an Error; its value is the returned value unwrapped
\* (of the innermost return taken), or that Error, or else the value of the
\* last statement; no later statement is evaluated and no later let binds.
C5_ProgramStopsAtReturnOrError ==
    (runs = 1 /\ program.kind = "Program") =>
        LET n == LastReached
            last == program.Statements[n]
            form == FormOf(last)
        IN  /\ status = "ready"
            /\ \A i \in 1..n : Evaluated(program.Statements[i])
            /\ \A i \in 1..n, j \in 1..n : i < j => CallOf(i) < CallOf(j)
            /\ \A j \in (n + 1)..Len(program.Statements) :
                  ~Evaluated(program.Statements[j])
            /\ DOMAIN envs[GlobalEnv].store =
                  {VariableName(i) : i \in {j \in 1..n : FormOf(program.Statements[j]) = "let"}}
            /\ CASE form = "return" ->
                       /\ trace[CallOf(n)].val.type = RETURN_VALUE_OBJ
                       /\ SameObject(outcome, trace[CallOf(n)].val.Value)
                       /\ outcome.type = INTEGER_OBJ /\ outcome.Value = 10 * n + 1
                 [] form = "nested return" ->
                       /\ trace[CallOf(n)].val.type = RETURN_VALUE_OBJ
                       /\ SameObject(outcome, trace[CallOf(n)].val.Value)
                       /\ outcome.type = INTEGER_OBJ /\ outcome.Value = 10 * n + 2
                 [] form = "error" ->
                       /\ SameObject(outcome, trace[CallOf(n)].val)
                       /\ outcome.type = ERROR_OBJ
                       /\ outcome.Message = "identifier not found: " \o UndefinedName(n)
                 [] form = "expression" ->
                       /\ SameObject(outcome, trace[CallOf(n)].val)
                       /\ outcome.type = INTEGER_OBJ /\ outcome.Value = 10 * n
                 [] OTHER ->
                       /\ SameObject(outcome, trace[CallOf(n)].val)
                       /\ outcome = NULL

\* A program of three statements has stopped at the return nested in the
\* ifs of its second statement, after the let of its first.
C5_Witness ==
    /\ runs = 1
    /\ program.kind = "Program"
    /\ Len(program.Statements) = 3
    /\ FormOf(program.Statements[1]) = "let"
    /\ FormOf(program.Statements[2]) = "nested return"
    /\ FormOf(program.Statements[3]) = "let"
    /\ outcome.type = INTEGER_OBJ /\ outcome.Value = 22
    /\ DOMAIN envs[GlobalEnv].store = {VariableName(1)}

---------------------------------------------------------------------------
(* Closures (C6): a session of the host with  adder = fn(x) { fn(y) { x + y } }. *)

Adder ==
    FunctionLiteral(<<"x">>,
        BlockStatement(<<ExpressionStatement(
            FunctionLiteral(<<"y">>,
                BlockStatement(<<ExpressionStatement(
                    InfixExpression(Identifier("x"), "+", Identifier("y")))>>)))>>))

\* The name the closure adder(a) is bound to.
ClosureName(a) == "add" \o Itoa(a)

Bound(name) == name \in DOMAIN envs[GlobalEnv].store

\* The integers the closures of a session are called with.
CalledWith == {0 - MaxInt, 1, MaxInt}

\* let adder = fn(x) { fn(y) { x + y } }; let addTwo = adder(a); addTwo(b)
AddAtOnce ==
    \E a \in -MaxInt..MaxInt, b \in -MaxInt..MaxInt :
        /\ runs = 0
        /\ Run(Program(<< LetStatement("adder", Adder),
                          LetStatement("addTwo",
                              CallExpression(Identifier("adder"), <<IntegerLiteral(a)>>)),
                          ExpressionStatement(
                              CallExpression(Identifier("addTwo"), <<IntegerLiteral(b)>>)) >>))

\* let adder = fn(x) { fn(y) { x + y } }
DefineAdder ==
    /\ runs = 0
    /\ Run(Program(<<LetStatement("adder", Adder)>>))

\* let add<a> = adder(a)
MakeClosure ==
    \E a \in 0..MaxCaptured :
        /\ Bound("adder") /\ ~Bound("addTwo") /\ ~Bound(ClosureName(a))
        /\ Run(Program(<<LetStatement(ClosureName(a),
                 CallExpression(Identifier("adder"), <<IntegerLiteral(a)>>))>>))

\* add<a>(b)
CallClosure ==
    \E a \in 0..MaxCaptured, b \in CalledWith :
        /\ Bound(ClosureName(a))
        /\ Run(Program(<<ExpressionStatement(
                 CallExpression(Identifier(ClosureName(a)), <<IntegerLiteral(b)>>))>>))

NextClosure == AddAtOnce \/ DefineAdder \/ MakeClosure \/ CallClosure

SpecClosure == Init /\ [][NextClosure]_vars

\* The last evaluation was add<a>(b).
CalledClosure(a, b) ==
    /\ runs > 0
    /\ Len(program.Statements) = 1
    /\ program.Statements[1].kind = "ExpressionStatement"
    /\ program.Statements[1].Expression.Function.Value = ClosureName(a)
    /\ program.Statements[1].Expression.Arguments[1].Value = b

\* C6: adder(a)(b) is the Integer a + b, and the closures adder(a1) and
\* adder(a2) keep their own x, in whatever order they are made and called.
C6_ClosuresCaptureTheirEnvironment ==
    /\ status = "ready"
    /\ (runs = 1 /\ Len(program.Statements) = 3) =>
          /\ outcome.type = INTEGER_OBJ
          /\ outcome.Value = program.Statements[2].Value.Arguments[1].Value
                             + program.Statements[3].Expression.Arguments[1].Value
    /\ \A a \in 0..MaxCaptured, b \in CalledWith :
          CalledClosure(a, b) => outcome.type = INTEGER_OBJ /\ outcome.Value = a + b
    /\ \A a \in 0..MaxCaptured :
          Bound(ClosureName(a)) =>
              LET closure == envs[GlobalEnv].store[ClosureName(a)]
              IN  /\ closure.type = FUNCTION_OBJ
                  /\ closure.Env # GlobalEnv
                  /\ envs[closure.Env].store["x"].Value = a
                  /\ \A c \in 0..MaxCaptured :
                        (c # a /\ Bound(ClosureName(c))) =>
                            envs[GlobalEnv].store[ClosureName(c)].Env # closure.Env

\* Two closures exist, add1 made before add0, add0 has been called and now
\* add1 has been called with 7.
C6_Witness ==
    /\ runs = 5
    /\ Bound(ClosureName(0)) /\ Bound(ClosureName(1))
    /\ envs[GlobalEnv].store[ClosureName(1)].addr < envs[GlobalEnv].store[ClosureName(0)].addr
    /\ CalledClosure(1, MaxInt)
    /\ Len(envs) = 5
    /\ outcome.type = INTEGER_OBJ /\ outcome.Value = 1 + MaxInt

---------------------------------------------------------------------------
(* An identifier looked up under nested scopes (C7).                       *)

\* The names looked up: the builtins' and two others.
LookedUpNames == {BuiltinNames[i] : i \in 1..Len(BuiltinNames)} \cup {"k", "lens"}

\* How a scope binds the name: not at all, by a let, or as a parameter.
ScopeForms == {"none", "let", "parameter"}

Scopings == UNION {[1..n -> ScopeForms] : n \in 0..MaxNesting}

\* The statements of the scope at the given level (1: the program), which
\* binds the name to the Integer level if it binds it, around the scopes of
\* the function calls nested in it:
\*   let name = 1; fn(name) { let name = 3; name }(2)
RECURSIVE Scope(_, _, _, _)
Scope(name, form, inner, level) ==
    (IF form = "let" THEN <<LetStatement(name, IntegerLiteral(level))>> ELSE <<>>)
    \o << ExpressionStatement(
            IF inner = <<>> THEN Identifier(name)
            ELSE CallExpression(
                   FunctionLiteral(IF Head(inner) = "parameter" THEN <<name>> ELSE <<>>,
                     BlockStatement(Scope(name, Head(inner), Tail(inner), level + 1))),
                   IF Head(inner) = "parameter"
                   THEN <<IntegerLiteral(level + 1)>> ELSE <<>>)) >>

Lookup ==
    \E name \in LookedUpNames, inner \in Scopings :
        /\ runs = 0
        /\ Run(Program(Scope(name, "none", inner, 1)))

LookupUnderLet ==
    \E name \in LookedUpNames, inner \in Scopings :
        /\ runs = 0
        /\ Run(Program(Scope(name, "let", inner, 1)))

NextLookup == Lookup \/ LookupUnderLet

SpecLookup == Init /\ [][NextLookup]_vars

\* The last statement of a scope: the identifier, or the call of the next scope.
Last(statements) == statements[Len(statements)].Expression

\* The name the statements look up in their innermost scope.
RECURSIVE LookedUp(_)
LookedUp(statements) ==
    IF Last(statements).kind = "Identifier" THEN Last(statements).Value
    ELSE LookedUp(Last(statements).Function.Body.Statements)

\* The level of the innermost scope that binds the name, given the level
\* found of the nearest scope around these statements that does (0: none).
RECURSIVE Innermost(_, _, _)
Innermost(statements, level, found) ==
    LET here == IF statements[1].kind = "LetStatement" THEN level ELSE found
    IN  IF Last(statements).kind = "Identifier" THEN here
        ELSE Innermost(Last(statements).Function.Body.Statements, level + 1,
                       IF Last(statements).Arguments # <<>> THEN level + 1 ELSE here)

\* C7: an identifier is the binding of the innermost scope that binds its
\* name; with no scope binding it, the builtin of that name; with no such
\* builtin, Error "identifier not found: <name>".
C7_InnermostScopeThenBuiltin ==
    runs = 1 =>
        LET name == LookedUp(program.Statements)
            level == Innermost(program.Statements, 1, 0)
        IN  /\ status = "ready"
            /\ IF level > 0
               THEN outcome.type = INTEGER_OBJ /\ outcome.Value = level
               ELSE IF \E i \in 1..Len(BuiltinNames) : BuiltinNames[i] = name
               THEN outcome.type = BUILTIN_OBJ /\ outcome.Name = name
               ELSE /\ outcome.type = ERROR_OBJ
                    /\ outcome.Message = "identifier not found: " \o name

\* `len`, bound by the program and as the parameter of the function around
\* the lookup, has resolved to the parameter.
C7_Witness ==
    /\ runs = 1
    /\ LookedUp(program.Statements) = "len"
    /\ program.Statements[1].kind = "LetStatement"
    /\ Len(envs) = 3
    /\ "len" \in DOMAIN envs[2].store
    /\ "len" \notin DOMAIN envs[3].store
    /\ outcome.type = INTEGER_OBJ /\ outcome.Value = 2

---------------------------------------------------------------------------
(* Conditions of every type (C8).                                          *)

ConditionForms ==
    {"true", "false", "null", "integer", "negative", "string", "array",
     "function", "builtin", "absent"}

\* An expression for a value of the given form: the Boolean sentinels, Null
\* (an if without alternative whose condition is false), Integer n and -n,
\* a String of n characters, an Array of n elements, a Function, a Builtin
\* (len for n = 0, else first),
\* and the absent value of a call of a function with an empty body.
Condition(form, n) ==
    CASE form = "true" -> BooleanLiteral(TRUE)
      [] form = "false" -> BooleanLiteral(FALSE)
      [] form = "null" ->
            IfExpression(BooleanLiteral(FALSE),
                         BlockStatement(<<ExpressionStatement(IntegerLiteral(1))>>), NoNode)
      [] form = "integer" -> IntegerLiteral(n)
      [] form = "negative" -> PrefixExpression("-", IntegerLiteral(n))
      [] form = "string" -> StringLiteral(IF n = 0 THEN "" ELSE Itoa(10 ^ (n - 1)))
      [] form = "array" -> ArrayLiteral([i \in 1..n |-> IntegerLiteral(0)])
      [] form = "function" -> FunctionLiteral(<<>>, EmptyBlock)
      [] form = "builtin" -> Identifier(IF n = 0 THEN "len" ELSE "first")
      [] form = "absent" -> Call(FunctionLiteral(<<>>, EmptyBlock))

Then == BlockStatement(<<ExpressionStatement(IntegerLiteral(10))>>)

Else == BlockStatement(<<ExpressionStatement(IntegerLiteral(20))>>)

EvalIf ==
    \E form \in ConditionForms, n \in 0..MaxInt :
        /\ runs = 0
        /\ Run(Program(<<ExpressionStatement(
                 IfExpression(Condition(form, n), Then, NoNode))>>))

EvalIfElse ==
    \E form \in ConditionForms, n \in 0..MaxInt :
        /\ runs = 0
        /\ Run(Program(<<ExpressionStatement(
                 IfExpression(Condition(form, n), Then, Else))>>))

EvalBang ==
    \E form \in ConditionForms, n \in 0..MaxInt :
        /\ runs = 0
        /\ Run(Program(<<ExpressionStatement(
                 PrefixExpression("!", Condition(form, n)))>>))

NextTruthy == EvalIf \/ EvalIfElse \/ EvalBang

SpecTruthy == Init /\ [][NextTruthy]_vars

\* The condition evaluates to False or to Null.
Falsy(condition) ==
    \/ condition.kind = "Boolean" /\ ~condition.Value
    \/ condition.kind = "IfExpression"

\* C8: an if evaluates its consequence exactly when its condition is neither
\* Null nor False (Integer 0, the empty String and the empty Array count as
\* true), else its alternative if it has one, else it yields Null; and !v is
\* True exactly when v is Null or False, and False otherwise.
C8_OnlyNullAndFalseAreFalsy ==
    runs = 1 =>
        LET e == program.Statements[1].Expression
        IN  /\ status = "ready"
            /\ e.kind = "IfExpression" =>
                  /\ Evaluated(Then) <=> ~Falsy(e.Condition)
                  /\ Evaluated(Else) <=> (Falsy(e.Condition) /\ e.Alternative.kind # "nil")
                  /\ ~Falsy(e.Condition) =>
                        outcome.type = INTEGER_OBJ /\ outcome.Value = 10
                  /\ (Falsy(e.Condition) /\ e.Alternative.kind # "nil") =>
                        outcome.type = INTEGER_OBJ /\ outcome.Value = 20
                  /\ (Falsy(e.Condition) /\ e.Alternative.kind = "nil") =>
                        SameObject(outcome, NULL)
            /\ e.kind = "PrefixExpression" =>
                  IF Falsy(e.Right) THEN SameObject(outcome, TRUE_)
                  ELSE SameObject(outcome, FALSE_)

\* An if without alternative has evaluated its consequence for Integer 0.
C8_Witness ==
    /\ runs = 1
    /\ program.Statements[1].Expression.kind = "IfExpression"
    /\ program.Statements[1].Expression.Alternative.kind = "nil"
    /\ program.Statements[1].Expression.Condition.kind = "IntegerLiteral"
    /\ program.Statements[1].Expression.Condition.Value = 0
    /\ Evaluated(Then)
    /\ outcome.type = INTEGER_OBJ /\ outcome.Value = 10

---------------------------------------------------------------------------
(* Infix expressions over operands of every type (C9).                     *)

InfixOperators == {"+", "-", "*", "/", "==", "!=", "<", ">"}

OperandForms ==
    {"true", "false", "null", "integer", "string", "array", "function", "builtin"}

OperandSizes == 0..1

\* left operator right, the operands being expressions of values.
EvalInfix ==
    \E operator \in InfixOperators, lform \in OperandForms, rform \in OperandForms,
       l \in OperandSizes, r \in OperandSizes :
        /\ runs = 0
        /\ Run(Program(<<ExpressionStatement(
                 InfixExpression(Condition(lform, l), operator, Condition(rform, r)))>>))

\* let x = value; x operator x: both operands are the same object.
EvalInfixOfItself ==
    \E operator \in InfixOperators, form \in OperandForms, n \in OperandSizes :
        /\ runs = 0
        /\ Run(Program(<<LetStatement("x", Condition(form, n)),
                         ExpressionStatement(
                             InfixExpression(Identifier("x"), operator, Identifier("x")))>>))

NextInfix == EvalInfix \/ EvalInfixOfItself

SpecInfix == Init /\ [][NextInfix]_vars

TheInfix == program.Statements[Len(program.Statements)].Expression

\* The expression an operand stands for: itself, or what x was bound to.
Denoted(operand) ==
    IF operand.kind = "Identifier" /\ operand.Value = "x"
    THEN program.Statements[1].Value ELSE operand

\* The type of the value of an operand, read off its expression.
TypeOf(operand) ==
    LET e == Denoted(operand)
    IN  CASE e.kind = "Boolean" -> "BOOLEAN"
          [] e.kind = "IfExpression" -> "NULL"
          [] e.kind = "IntegerLiteral" -> "INTEGER"
          [] e.kind = "StringLiteral" -> "STRING"
          [] e.kind = "ArrayLiteral" -> "ARRAY"
          [] e.kind = "FunctionLiteral" -> "FUNCTION"
          [] e.kind = "Identifier" -> "BUILTIN"

\* Both operands are one object: the same sentinel, the same builtin, or the
\* same variable.
Identical(left, right) ==
    /\ left.kind = right.kind
    /\ CASE left.kind = "Boolean" -> left.Value = right.Value
         [] left.kind = "IfExpression" -> TRUE
         [] left.kind = "Identifier" -> left.Value = right.Value
         [] OTHER -> FALSE

\* C9: when the operands are not both Integer, String + String is the
\* concatenation; else operands of different types give "type mismatch" for
\* every operator, == and != included; else == and != give the Boolean
\* sentinel of the operands being one object; else "unknown operator".
C9_InfixCasesInOrder ==
    (runs = 1 /\ ~(TypeOf(TheInfix.Left) = "INTEGER" /\ TypeOf(TheInfix.Right) = "INTEGER")) =>
        LET lt == TypeOf(TheInfix.Left)
            rt == TypeOf(TheInfix.Right)
            op == TheInfix.Operator
        IN  /\ status = "ready"
            /\ IF lt = "STRING" /\ rt = "STRING" /\ op = "+"
               THEN /\ outcome.type = STRING_OBJ
                    /\ outcome.Value = Denoted(TheInfix.Left).Value
                                        \o Denoted(TheInfix.Right).Value
               ELSE IF lt # rt
               THEN /\ outcome.type = ERROR_OBJ
                    /\ outcome.Message = "type mismatch: " \o lt \o " " \o op \o " " \o rt
               ELSE IF op = "=="
               THEN SameObject(outcome, IF Identical(TheInfix.Left, TheInfix.Right)
                                        THEN TRUE_ ELSE FALSE_)
               ELSE IF op = "!="
               THEN SameObject(outcome, IF Identical(TheInfix.Left, TheInfix.Right)
                                        THEN FALSE_ ELSE TRUE_)
               ELSE /\ outcome.type = ERROR_OBJ
                    /\ outcome.Message = "unknown operator: " \o lt \o " " \o op \o " " \o rt

\* 0 == true has given the type mismatch, not False.
C9_Witness ==
    /\ runs = 1
    /\ TheInfix.Operator = "=="
    /\ TheInfix.Left.kind = "IntegerLiteral"
    /\ TheInfix.Right.kind = "Boolean" /\ TheInfix.Right.Value
    /\ outcome.type = ERROR_OBJ
    /\ outcome.Message = "type mismatch: INTEGER == BOOLEAN"

---------------------------------------------------------------------------
(* Infix expressions over two Integers (C10).                              *)

\* The operators of the Integer table, and two that are not in it.
IntegerOperators == InfixOperators \union {"%", "&&"}

\* The expression of the Integer n: a literal, negated when n is negative.
Signed(n) ==
    IF n < 0 THEN PrefixExpression("-", IntegerLiteral(0 - n)) ELSE IntegerLiteral(n)

EvalIntegerInfix ==
    \E operator \in IntegerOperators, l \in (0 - MaxInt)..MaxInt, r \in (0 - MaxInt)..MaxInt :
        /\ runs = 0
        /\ Run(Program(<<ExpressionStatement(
                 InfixExpression(Signed(l), operator, Signed(r)))>>))

EvalIntegerInfixOfNames ==
    \E operator \in IntegerOperators, l \in (0 - MaxInt)..MaxInt, r \in (0 - MaxInt)..MaxInt :
        /\ runs = 0
        /\ Run(Program(<<LetStatement("l", Signed(l)), LetStatement("r", Signed(r)),
                         ExpressionStatement(
                             InfixExpression(Identifier("l"), operator, Identifier("r")))>>))

NextIntegerInfix == EvalIntegerInfix \/ EvalIntegerInfixOfNames

SpecIntegerInfix == Init /\ [][NextIntegerInfix]_vars

\* The Integer an operand stands for.
IntegerOf(operand) ==
    LET e == IF operand.kind = "Identifier"
             THEN program.Statements[IF operand.Value = "l" THEN 1 ELSE 2].Value
             ELSE operand
    IN  IF e.kind = "PrefixExpression" THEN 0 - e.Right.Value ELSE e.Value

\* q is x / y with the fraction dropped: what is left of x has the sign of x
\* and is smaller than y in magnitude.
TruncatedQuotient(q, x, y) ==
    LET remainder == x - q * y
    IN  /\ Abs(remainder) < Abs(y)
        /\ remainder = 0 \/ ((remainder < 0) <=> (x < 0))

\* C10: over two Integers + - * / give the Integer of the result, / with a
\* divisor other than 0 truncating toward zero for every combination of signs;
\* == != < > give the Boolean sentinel of the comparison; any other operator
\* gives "unknown operator: INTEGER <op> INTEGER".
C10_IntegerInfixTable ==
    runs = 1 =>
        LET x == IntegerOf(TheInfix.Left)
            y == IntegerOf(TheInfix.Right)
            op == TheInfix.Operator
            Sentinel(b) == SameObject(outcome, IF b THEN TRUE_ ELSE FALSE_)
        IN  CASE op = "+" -> outcome.type = INTEGER_OBJ /\ outcome.Value = x + y
              [] op = "-" -> outcome.type = INTEGER_OBJ /\ outcome.Value = x - y
              [] op = "*" -> outcome.type = INTEGER_OBJ /\ outcome.Value = x * y
              [] op = "/" ->
                    y # 0 => /\ outcome.type = INTEGER_OBJ
                             /\ TruncatedQuotient(outcome.Value, x, y)
              [] op = "==" -> Sentinel(x = y)
              [] op = "!=" -> Sentinel(x # y)
              [] op = "<" -> Sentinel(x < y)
              [] op = ">" -> Sentinel(x > y)
              [] OTHER ->
                    /\ outcome.type = ERROR_OBJ
                    /\ outcome.Message = "unknown operator: INTEGER " \o op \o " INTEGER"

\* -7 / 2 has given -3.
C10_Witness ==
    /\ runs = 1
    /\ TheInfix.Operator = "/"
    /\ IntegerOf(TheInfix.Left) = 0 - 7
    /\ IntegerOf(TheInfix.Right) = 2
    /\ outcome.type = INTEGER_OBJ /\ outcome.Value = 0 - 3

---------------------------------------------------------------------------
(* Integer division by a divisor that is zero (C11).                       *)

DivisorForms == {"zero", "negated zero", "difference", "variable", "quotient", "one"}

\* The divisor b of a / b: every form but the last evaluates to Integer 0.
Divisor(form) ==
    CASE form = "zero" -> IntegerLiteral(0)
      [] form = "negated zero" -> PrefixExpression("-", IntegerLiteral(0))
      [] form = "difference" -> InfixExpression(IntegerLiteral(3), "-", IntegerLiteral(3))
      [] form = "variable" -> Identifier("d")
      [] form = "quotient" -> InfixExpression(IntegerLiteral(1), "/", IntegerLiteral(2))
      [] form = "one" -> IntegerLiteral(1)

DivisionPlaces ==
    {"statement", "let", "return", "body", "argument", "condition", "operand",
     "element", "index"}

\* The statement that was reached after the division.
Following == ExpressionStatement(StringLiteral("after"))

\* The statement that has the expression e at the given place.
Placed(place, e) ==
    CASE place = "statement" -> ExpressionStatement(e)
      [] place = "let" -> LetStatement("q", e)
      [] place = "return" -> ReturnStatement(e)
      [] place = "body" ->
            ExpressionStatement(CallExpression(
                FunctionLiteral(<<>>, BlockStatement(<<ExpressionStatement(e), Following>>)),
                <<>>))
      [] place = "argument" ->
            ExpressionStatement(CallExpression(Identifier("len"), <<e>>))
      [] place = "condition" ->
            ExpressionStatement(IfExpression(e,
                BlockStatement(<<Following>>), BlockStatement(<<Following>>)))
      [] place = "operand" ->
            ExpressionStatement(InfixExpression(e, "+", IntegerLiteral(1)))
      [] place = "element" -> ExpressionStatement(ArrayLiteral(<<e, IntegerLiteral(1)>>))
      [] place = "index" ->
            ExpressionStatement(IndexExpression(ArrayLiteral(<<IntegerLiteral(1)>>), e))

\* let d = 0; <a / b at the place>; "after"
DivisionProgram(a, form, place) ==
    Program(<< LetStatement("d", IntegerLiteral(0)),
               Placed(place, InfixExpression(Signed(a), "/", Divisor(form))),
               Following >>)

Divide ==
    \E a \in (0 - MaxInt)..MaxInt, form \in DivisorForms, place \in DivisionPlaces :
        /\ runs = 0
        /\ Run(DivisionProgram(a, form, place))

\* A host that divides by zero and then, if it still runs, evaluates more.
DivideAgain ==
    \E a \in {1}, form \in {"zero", "one"} :
        /\ runs > 0
        /\ Run(DivisionProgram(a, form, "statement"))

NextDivide == Divide \/ DivideAgain

SpecDivide == Init /\ [][NextDivide]_vars

\* C11: a / b with b evaluating to Integer 0 yields no Error and no other
\* value: the evaluation traps, no statement after the division is evaluated
\* and the host gets no result.
C11_DivisionByZeroTraps ==
    /\ \A a \in (0 - MaxInt)..MaxInt, form \in DivisorForms \ {"one"},
          place \in DivisionPlaces :
           (runs = 1 /\ SameNode(program, DivisionProgram(a, form, place))) =>
               /\ status = "panicked"
               /\ ~Evaluated(InfixExpression(Signed(a), "/", Divisor(form)))
               /\ \A t \in 1..Len(trace) : ~isError(trace[t].val)
    /\ status = "panicked" => outcome = NIL /\ ~Evaluated(Following)

\* 7 / (3 - 3) as a let value has trapped after both operands were evaluated.
C11_Witness ==
    /\ runs = 1
    /\ SameNode(program, DivisionProgram(7, "difference", "let"))
    /\ status = "panicked"
    /\ Evaluated(Signed(7)) /\ Evaluated(Divisor("difference"))
    /\ "q" \notin DOMAIN envs[GlobalEnv].store

---------------------------------------------------------------------------
(* Index expressions (C12).                                                *)

\* The element at position i (from 1) of a generated array.
ElementValue(i) == 10 * i

\* [10, 20, ..., 10 * n]
ArrayOf(n) == ArrayLiteral([i \in 1..n |-> IntegerLiteral(ElementValue(i))])

\* The forms of a receiver or an index that is no Array and no Integer.
OtherForms == {"true", "false", "null", "string", "function", "builtin"}

\* [10, ..., 10 * n][i]
IndexArray ==
    \E n \in 0..MaxLen, i \in (0 - MaxInt)..MaxInt :
        /\ runs = 0
        /\ Run(Program(<<ExpressionStatement(IndexExpression(ArrayOf(n), Signed(i)))>>))

\* let x = [10, ..., 10 * n]; x[i]
IndexBoundArray ==
    \E n \in 0..MaxLen, i \in (0 - MaxInt)..MaxInt :
        /\ runs = 0
        /\ Run(Program(<<LetStatement("x", ArrayOf(n)),
                         ExpressionStatement(IndexExpression(Identifier("x"), Signed(i)))>>))

\* An Array indexed by what is no Integer.
IndexArrayByOther ==
    \E n \in 0..MaxLen, form \in OtherForms \union {"array"}, size \in 0..1 :
        /\ runs = 0
        /\ Run(Program(<<ExpressionStatement(
                 IndexExpression(ArrayOf(n), Condition(form, size)))>>))

\* What is no Array, indexed by anything.
IndexOther ==
    \E form \in OtherForms \union {"integer"}, index \in OtherForms \union {"integer", "array"},
       l \in 0..1, r \in 0..1 :
        /\ runs = 0
        /\ Run(Program(<<ExpressionStatement(
                 IndexExpression(Condition(form, l), Condition(index, r)))>>))

NextIndex == IndexArray \/ IndexBoundArray \/ IndexArrayByOther \/ IndexOther

SpecIndex == Init /\ [][NextIndex]_vars

\* The index expression of the program, its receiver and its index.
TheIndex == program.Statements[Len(program.Statements)].Expression

\* The type of the value of a receiver or an index, read off its expression.
IndexedTypeOf(e) == IF e.kind = "PrefixExpression" THEN "INTEGER" ELSE TypeOf(e)

\* C12: an Array indexed by the Integer i gives its element at i when
\* 0 <= i <= length - 1 and the canonical Null for every other i; every other
\* combination of receiver and index gives Error "index operator not
\* supported: <type of the index>".  No evaluation traps.
C12_IndexWithinBounds ==
    runs = 1 =>
        LET receiver == Denoted(TheIndex.Left)
            lt == IndexedTypeOf(TheIndex.Left)
            it == IndexedTypeOf(TheIndex.Index)
        IN  /\ status = "ready"
            /\ IF lt = "ARRAY" /\ it = "INTEGER"
               THEN LET i == IntegerOf(TheIndex.Index)
                        length == Len(receiver.Elements)
                    IN  IF 0 <= i /\ i <= length - 1
                        THEN /\ outcome.type = INTEGER_OBJ
                             /\ outcome.Value = receiver.Elements[i + 1].Value
                             /\ TheIndex.Left.kind = "Identifier" =>
                                   outcome = ElementsOf(heap,
                                       envs[GlobalEnv].store["x"].Elements)[i + 1]
                        ELSE SameObject(outcome, NULL)
               ELSE /\ outcome.type = ERROR_OBJ
                    /\ outcome.Message = "index operator not supported: " \o it

\* [10, 20, 30][3], the index equal to the length, has given Null.
C12_Witness ==
    /\ runs = 1
    /\ TheIndex.Left.kind = "ArrayLiteral"
    /\ Len(TheIndex.Left.Elements) = 3
    /\ TheIndex.Index.kind = "IntegerLiteral" /\ TheIndex.Index.Value = 3
    /\ SameObject(outcome, NULL)

---------------------------------------------------------------------------
(* len, first, last and rest of an Array (C13).                            *)

ArrayBuiltins == {"len", "first", "last", "rest"}

\* The Integers of the elements of the generated arrays, position by position.
ElementLists == UNION {[1..n -> 1..2] : n \in 0..MaxLen}

\* [values[1], ..., values[n]]
ArrayOfValues(values) ==
    ArrayLiteral([i \in 1..Len(values) |-> IntegerLiteral(values[i])])

\* The Integer that push appends in the programs below.
Pushed == IntegerLiteral(9)

\* builtin([...])
ApplyToArray ==
    \E name \in ArrayBuiltins, values \in ElementLists :
        /\ runs = 0
        /\ Run(Program(<<ExpressionStatement(
                 CallExpression(Identifier(name), <<ArrayOfValues(values)>>))>>))

\* let x = [...]; builtin(x)
ApplyToBoundArray ==
    \E name \in ArrayBuiltins, values \in ElementLists :
        /\ runs = 0
        /\ Run(Program(<<LetStatement("x", ArrayOfValues(values)),
                         ExpressionStatement(
                             CallExpression(Identifier(name), <<Identifier("x")>>))>>))

\* let x = [...]; builtin(rest(x)), for an x of two elements or more
ApplyToRest ==
    \E name \in ArrayBuiltins, values \in ElementLists :
        /\ runs = 0
        /\ Len(values) >= 2
        /\ Run(Program(<<LetStatement("x", ArrayOfValues(values)),
                         ExpressionStatement(CallExpression(Identifier(name),
                             <<CallExpression(Identifier("rest"), <<Identifier("x")>>)>>))>>))

\* let x = [...]; builtin(push(x, 9))
ApplyToPushed ==
    \E name \in ArrayBuiltins, values \in ElementLists :
        /\ runs = 0
        /\ Run(Program(<<LetStatement("x", ArrayOfValues(values)),
                         ExpressionStatement(CallExpression(Identifier(name),
                             <<CallExpression(Identifier("push"),
                                              <<Identifier("x"), Pushed>>)>>))>>))

NextArray == ApplyToArray \/ ApplyToBoundArray \/ ApplyToRest \/ ApplyToPushed

SpecArray == Init /\ [][NextArray]_vars

\* The call of the builtin that the program ends with.
TheApplication == program.Statements[Len(program.Statements)].Expression

\* The literals of the elements of the Array an argument stands for.
ElementLiterals(argument) ==
    CASE argument.kind = "ArrayLiteral" -> argument.Elements
      [] argument.kind = "Identifier" -> program.Statements[1].Value.Elements
      [] argument.Function.Value = "rest" -> Tail(program.Statements[1].Value.Elements)
      [] argument.Function.Value = "push" ->
            Append(program.Statements[1].Value.Elements, Pushed)

\* The object is the Integer of the literal.
IsIntegerOf(obj, literal) == obj.type = INTEGER_OBJ /\ obj.Value = literal.Value

\* C13: for an Array a, first(a) is its first and last(a) its last element,
\* both Null when a is empty; rest(a) is an Array of exactly the elements of
\* a after the first, in order, when a has two elements or more, and Null
\* when it has one or none; len(a) is the number of elements.
C13_ArrayBuiltins ==
    runs = 1 =>
        LET name == TheApplication.Function.Value
            a == ElementLiterals(TheApplication.Arguments[1])
            n == Len(a)
        IN  /\ status = "ready"
            /\ name = "len" => outcome.type = INTEGER_OBJ /\ outcome.Value = n
            /\ name = "first" =>
                  IF n = 0 THEN SameObject(outcome, NULL) ELSE IsIntegerOf(outcome, a[1])
            /\ name = "last" =>
                  IF n = 0 THEN SameObject(outcome, NULL) ELSE IsIntegerOf(outcome, a[n])
            /\ name = "rest" =>
                  IF n <= 1 THEN SameObject(outcome, NULL)
                  ELSE /\ outcome.type = ARRAY_OBJ
                       /\ outcome.Elements.len = n - 1
                       /\ \A i \in 1..(n - 1) :
                             IsIntegerOf(ElementsOf(heap, outcome.Elements)[i], a[i + 1])

\* rest of a bound array [1, 2, 1] has given a new Array [2, 1].
C13_Witness ==
    /\ runs = 1
    /\ TheApplication.Function.Value = "rest"
    /\ TheApplication.Arguments[1].kind = "Identifier"
    /\ Len(program.Statements[1].Value.Elements) = 3
    /\ outcome.type = ARRAY_OBJ
    /\ ~SameObject(outcome, envs[GlobalEnv].store["x"])
    /\ outcome.Elements.len = 2
    /\ ElementsOf(heap, outcome.Elements)[1].Value = 2
    /\ ElementsOf(heap, outcome.Elements)[2].Value = 1

---------------------------------------------------------------------------
(* push and rest on arrays bound to names (C14): a session of the host.    *)

\* The Integers pushed.
PushedValues == {7, 8}

\* The name the result of push(source, v) is bound to.
PushTarget(source) == IF source = "a" THEN "b" ELSE "d"

\* let a = [10, ..., 10 * n]
DefineArray ==
    \E n \in 0..MaxLen :
        /\ runs = 0
        /\ Run(Program(<<LetStatement("a", ArrayOf(n))>>))

\* let b = push(a, v), and let d = push(b, v) or push(c, v): a push on a result
PushOnto ==
    \E source \in {"a", "b", "c"}, v \in PushedValues :
        /\ Bound(source)
        /\ Run(Program(<<LetStatement(PushTarget(source),
                 CallExpression(Identifier("push"),
                                <<Identifier(source), IntegerLiteral(v)>>))>>))

\* let c = rest(a), or rest(b)
RestOf ==
    \E source \in {"a", "b"} :
        /\ Bound(source)
        /\ Run(Program(<<LetStatement("c",
                 CallExpression(Identifier("rest"), <<Identifier(source)>>))>>))

NextPush == DefineArray \/ PushOnto \/ RestOf

SpecPush == Init /\ [][NextPush]_vars

\* The names bound to an Array.
BoundArrays(es) ==
    {name \in DOMAIN es[GlobalEnv].store : es[GlobalEnv].store[name].type = ARRAY_OBJ}

\* C14: push and rest leave their argument as it was: every Array bound to a
\* name keeps its elements, in order, over every call; push(x, v) gives a new
\* Array of the elements of x followed by v; and no two Arrays share storage,
\* so that a later push on an Array or on a result changes no other Array.
C14_BuiltinsDoNotMutate ==
    [][ LET store == envs[GlobalEnv].store
            store_ == envs'[GlobalEnv].store
            call == program'.Statements[1].Value
        IN  /\ \A name \in BoundArrays(envs) \cap BoundArrays(envs') :
                  SameObject(store[name], store_[name]) =>
                      ElementsOf(heap', store_[name].Elements)
                          = ElementsOf(heap, store[name].Elements)
            /\ (runs > 0 /\ call.Function.Value = "push"
                         /\ call.Arguments[1].Value \in BoundArrays(envs)) =>
                  LET x == store[call.Arguments[1].Value]
                      result == store_[program'.Statements[1].Name.Value]
                  IN  /\ result.type = ARRAY_OBJ
                      /\ result.addr >= next
                      /\ result.Elements.len = x.Elements.len + 1
                      /\ SubSeq(ElementsOf(heap', result.Elements), 1, x.Elements.len)
                            = ElementsOf(heap, x.Elements)
                      /\ ElementsOf(heap', result.Elements)[result.Elements.len].Value
                            = call.Arguments[2].Value
            /\ \A m \in BoundArrays(envs'), n \in BoundArrays(envs') :
                  (~SameObject(store_[m], store_[n]) /\ store_[m].Elements.data # 0) =>
                      store_[m].Elements.data # store_[n].Elements.data
      ]_vars

\* a = [10, 20, 30] has been pushed onto twice, the second time after its
\* first result b had been pushed onto, and a, b and d are what they were.
C14_Witness ==
    /\ runs = 4
    /\ BoundArrays(envs) = {"a", "b", "d"}
    /\ program.Statements[1].Name.Value = "b"
    /\ envs[GlobalEnv].store["a"].Elements.len = 3
    /\ envs[GlobalEnv].store["b"].addr > envs[GlobalEnv].store["d"].addr
    /\ ElementsOf(heap, envs[GlobalEnv].store["b"].Elements)[4].Value = 8
    /\ ElementsOf(heap, envs[GlobalEnv].store["d"].Elements)[4].Value = 7
    /\ ElementsOf(heap, envs[GlobalEnv].store["d"].Elements)[5].Value = 7

---------------------------------------------------------------------------
(* Builtins called with any number of arguments of any type (C15).         *)

ArgumentTypes == {"integer", "string", "array", "true", "null", "function", "builtin"}

\* The argument lists: 0 .. MaxArgs + 1 arguments, each of any of the types.
TypedArguments == UNION {[1..n -> ArgumentTypes] : n \in 0..(MaxArgs + 1)}

ArgumentsOf(forms) == [i \in 1..Len(forms) |-> Condition(forms[i], 1)]

\* name(arguments)
CallBuiltinWith ==
    \E i \in 1..Len(BuiltinNames), forms \in TypedArguments :
        /\ runs = 0
        /\ Run(Program(<<ExpressionStatement(
                 CallExpression(Identifier(BuiltinNames[i]), ArgumentsOf(forms)))>>))

\* let f = name; f(arguments)
CallBoundBuiltinWith ==
    \E i \in 1..Len(BuiltinNames), forms \in TypedArguments :
        /\ runs = 0
        /\ Run(Program(<<LetStatement("f", Identifier(BuiltinNames[i])),
                         ExpressionStatement(
                             CallExpression(Identifier("f"), ArgumentsOf(forms)))>>))

NextBuiltin == CallBuiltinWith \/ CallBoundBuiltinWith

SpecBuiltin == Init /\ [][NextBuiltin]_vars

\* The name of the builtin that the program calls.
CalledBuiltin ==
    IF Len(program.Statements) = 1 THEN TheApplication.Function.Value
    ELSE program.Statements[1].Value.Value

\* The number of arguments a builtin takes.
Arity(name) == IF name = "push" THEN 2 ELSE 1

\* The types of first argument a builtin works on.
Supported(name) == IF name = "len" THEN {"STRING", "ARRAY"} ELSE {"ARRAY"}

\* C15: a builtin called with a number n of arguments other than its arity k
\* gives Error "wrong number of arguments. got=<n>, want=<k>", whatever the
\* arguments are; called with k arguments the first of which has a type it
\* does not work on, it gives Error "argument to <quote><its own name><quote>
\* not supported, got <type>" (the quote being the one the code writes).
C15_BuiltinErrors ==
    runs = 1 =>
        LET name == CalledBuiltin
            n == Len(TheApplication.Arguments)
        IN  /\ status = "ready"
            /\ n # Arity(name) =>
                  /\ outcome.type = ERROR_OBJ
                  /\ outcome.Message = "wrong number of arguments. got=" \o Itoa(n)
                                        \o ", want=" \o Itoa(Arity(name))
            /\ (n = Arity(name) /\ TypeOf(TheApplication.Arguments[1]) \notin Supported(name)) =>
                  /\ outcome.type = ERROR_OBJ
                  /\ outcome.Message = "argument to " \o GraveAccent \o name \o GraveAccent
                                        \o " not supported, got "
                                        \o TypeOf(TheApplication.Arguments[1])

---------------------------------------------------------------------------
(* package token, package parser and the rendering of package ast, after   *)
(* the specification.  The parser reads the token stream of the lexer: a   *)
(* sequence of tokens, after which every token is EOF.  A parsing function *)
(* gets the position of the current token and the errors recorded so far,  *)
(* and gives its node (NoNode for nil), the position it leaves current and  *)
(* the errors.                                                              *)

Token(type, literal) == [Type |-> type, Literal |-> literal]

EOF == Token("EOF", "")

\* The kind the lexer gives a lexeme that is not a string literal.
KindOf(lexeme) ==
    CASE lexeme = "fn" -> "FUNCTION"
      [] lexeme = "let" -> "LET"
      [] lexeme = "true" -> "TRUE"
      [] lexeme = "false" -> "FALSE"
      [] lexeme = "if" -> "IF"
      [] lexeme = "else" -> "ELSE"
      [] lexeme = "return" -> "RETURN"
      [] lexeme = "=" -> "ASSIGN"
      [] lexeme = "+" -> "PLUS"
      [] lexeme = "-" -> "MINUS"
      [] lexeme = "!" -> "BANG"
      [] lexeme = "*" -> "ASTERISK"
      [] lexeme = "/" -> "SLASH"
      [] lexeme = "<" -> "LT"
      [] lexeme = ">" -> "GT"
      [] lexeme = "==" -> "EQ"
      [] lexeme = "!=" -> "NEQ"
      [] lexeme = "," -> "COMMA"
      [] lexeme = ";" -> "SEMICOLON"
      [] lexeme = "(" -> "LPAREN"
      [] lexeme = ")" -> "RPAREN"
      [] lexeme = "{" -> "LBRACE"
      [] lexeme = "}" -> "RBRACE"
      [] lexeme = "[" -> "LBRACKET"
      [] lexeme = "]" -> "RBRACKET"
      [] SubSeq(lexeme, 1, 1) \in {Digits[d] : d \in 1..Len(Digits)} -> "INT"
      [] OTHER -> "IDENTIFIER"

\* The token stream of a source text given by its lexemes.
Lexed(lexemes) == [i \in 1..Len(lexemes) |-> Token(KindOf(lexemes[i]), lexemes[i])]

\* The token of the string literal "s".
StringToken(s) == Token("STRING", s)

TokenAt(tokens, pos) == IF pos > Len(tokens) THEN EOF ELSE tokens[pos]

TypeAt(tokens, pos) == TokenAt(tokens, pos).Type

Precedence ==
    [LOWEST |-> 1, EQUALS |-> 2, LESSGREATER |-> 3, SUM |-> 4, PRODUCT |-> 5,
     PREFIX |-> 6, CALL |-> 7]

\* The token-to-precedence table; every other token has LOWEST.
precedences(type) ==
    CASE type \in {"EQ", "NEQ"} -> Precedence.EQUALS
      [] type \in {"LT", "GT"} -> Precedence.LESSGREATER
      [] type \in {"PLUS", "MINUS"} -> Precedence.SUM
      [] type \in {"ASTERISK", "SLASH"} -> Precedence.PRODUCT
      [] type \in {"LPAREN", "LBRACKET"} -> Precedence.CALL
      [] OTHER -> Precedence.LOWEST

\* The tokens that have a prefix handler, and those that have an infix one.
PrefixTypes ==
    {"IDENTIFIER", "INT", "STRING", "TRUE", "FALSE", "BANG", "MINUS", "LPAREN", "IF",
     "FUNCTION", "LBRACKET"}

InfixTypes ==
    {"PLUS", "MINUS", "ASTERISK", "SLASH", "LT", "GT", "EQ", "NEQ", "LPAREN", "LBRACKET"}

Parsed(node, pos, errors) == [node |-> node, pos |-> pos, errors |-> errors]

\* expectPeek: the peek token becomes current if it has the type, else an
\* error is recorded and the current token stays.
expectPeek(tokens, pos, type, errors) ==
    IF TypeAt(tokens, pos + 1) = type
    THEN [ok |-> TRUE, pos |-> pos + 1, errors |-> errors]
    ELSE [ok |-> FALSE, pos |-> pos,
          errors |-> Append(errors, "expected next token to be " \o type \o ", got "
                                    \o TypeAt(tokens, pos + 1) \o " instead")]

DigitOf(character) == CHOOSE d \in 0..9 : Digits[d + 1] = character

\* The value of a string of decimal digits.
RECURSIVE Atoi(_)
Atoi(literal) ==
    IF Len(literal) = 0 THEN 0
    ELSE 10 * Atoi(SubSeq(literal, 1, Len(literal) - 1))
             + DigitOf(SubSeq(literal, Len(literal), Len(literal)))

RECURSIVE WithoutLeadingZeros(_)
WithoutLeadingZeros(literal) ==
    IF Len(literal) > 1 /\ SubSeq(literal, 1, 1) = "0"
    THEN WithoutLeadingZeros(SubSeq(literal, 2, Len(literal)))
    ELSE literal

\* a > b, for strings of digits of one length
RECURSIVE GreaterDigits(_, _)
GreaterDigits(a, b) ==
    IF Len(a) = 0 THEN FALSE
    ELSE IF SubSeq(a, 1, 1) = SubSeq(b, 1, 1)
    THEN GreaterDigits(SubSeq(a, 2, Len(a)), SubSeq(b, 2, Len(b)))
    ELSE DigitOf(SubSeq(a, 1, 1)) > DigitOf(SubSeq(b, 1, 1))

\* The digits do not fit a signed 64-bit integer.
Overflows(literal) ==
    LET digits == WithoutLeadingZeros(literal)
        largest == "9223372036854775807"
    IN  Len(digits) > Len(largest)
            \/ (Len(digits) = Len(largest) /\ GreaterDigits(digits, largest))

RECURSIVE parseStatement(_, _, _)
RECURSIVE parseExpression(_, _, _, _)
RECURSIVE parseInfixLoop(_, _, _)
RECURSIVE parseListRest(_, _, _, _)
RECURSIVE parseBlockStatements(_, _, _, _)
RECURSIVE parseParametersRest(_, _, _)

parseIntegerLiteral(tokens, pos, errors) ==
    IF Overflows(tokens[pos].Literal)
    THEN Parsed(NoNode, pos,
                Append(errors, "could not parse " \o tokens[pos].Literal \o " as integer"))
    ELSE Parsed(IntegerLiteral(Atoi(tokens[pos].Literal)), pos, errors)

parsePrefixExpression(tokens, pos, errors) ==
    LET made(right) ==
            Parsed(PrefixExpression(tokens[pos].Literal, right.node), right.pos,
                   right.errors)
    IN  made(parseExpression(tokens, pos + 1, Precedence.PREFIX, errors))

parseGroupedExpression(tokens, pos, errors) ==
    LET closing(e) ==
            LET closed == expectPeek(tokens, e.pos, "RPAREN", e.errors)
            IN  Parsed(IF closed.ok THEN e.node ELSE NoNode, closed.pos, closed.errors)
    IN  closing(parseExpression(tokens, pos + 1, Precedence.LOWEST, errors))

\* The statements of a block from the current token on, up to RBRACE or EOF.
parseBlockStatements(tokens, pos, statements, errors) ==
    LET following(s) ==
            parseBlockStatements(tokens, s.pos + 1,
                IF s.node.kind = "nil" THEN statements ELSE Append(statements, s.node),
                s.errors)
    IN  IF TypeAt(tokens, pos) \in {"RBRACE", "EOF"}
        THEN Parsed(BlockStatement(statements), pos, errors)
        ELSE following(parseStatement(tokens, pos, errors))

\* parseBlockStatement, the current token being LBRACE
parseBlockStatement(tokens, pos, errors) ==
    parseBlockStatements(tokens, pos + 1, <<>>, errors)

parseIfExpression(tokens, pos, errors) ==
    LET withAlternative(condition, consequence, alternative) ==
            Parsed(IfExpression(condition.node, consequence.node, alternative.node),
                   alternative.pos, alternative.errors)
        \* peek is ELSE: two tokens on, then the block
        withConsequence(condition, consequence) ==
            IF TypeAt(tokens, consequence.pos + 1) # "ELSE"
            THEN Parsed(IfExpression(condition.node, consequence.node, NoNode),
                        consequence.pos, consequence.errors)
            ELSE withAlternative(condition, consequence,
                     parseBlockStatement(tokens, consequence.pos + 2,
                                         consequence.errors))
        withCondition(condition) ==
            LET closed == expectPeek(tokens, condition.pos, "RPAREN", condition.errors)
                braced == expectPeek(tokens, closed.pos, "LBRACE", closed.errors)
            IN  IF ~closed.ok THEN Parsed(NoNode, closed.pos, closed.errors)
                ELSE IF ~braced.ok THEN Parsed(NoNode, braced.pos, braced.errors)
                ELSE withConsequence(condition,
                         parseBlockStatement(tokens, braced.pos, braced.errors))
        opened == expectPeek(tokens, pos, "LPAREN", errors)
    IN  IF ~opened.ok THEN Parsed(NoNode, opened.pos, opened.errors)
        ELSE withCondition(parseExpression(tokens, opened.pos + 1, Precedence.LOWEST,
                                           opened.errors))

\* The parameters after the first, while the peek token is a comma.
parseParametersRest(tokens, pos, names) ==
    IF TypeAt(tokens, pos + 1) = "COMMA"
    THEN parseParametersRest(tokens, pos + 2,
                             Append(names, TokenAt(tokens, pos + 2).Literal))
    ELSE [names |-> names, pos |-> pos]

\* The current token is LPAREN.  Each parameter is the token at its place,
\* whatever its type.
parseFunctionParameters(tokens, pos, errors) ==
    LET closing(rest) ==
            LET closed == expectPeek(tokens, rest.pos, "RPAREN", errors)
            IN  [names |-> IF closed.ok THEN rest.names ELSE <<>>, ok |-> closed.ok,
                 pos |-> closed.pos, errors |-> closed.errors]
    IN  IF TypeAt(tokens, pos + 1) = "RPAREN"
        THEN [names |-> <<>>, ok |-> TRUE, pos |-> pos + 1, errors |-> errors]
        ELSE closing(parseParametersRest(tokens, pos + 1,
                                         <<TokenAt(tokens, pos + 1).Literal>>))

parseFunctionLiteral(tokens, pos, errors) ==
    LET made(parameters, body) ==
            Parsed(FunctionLiteral(parameters.names, body.node), body.pos, body.errors)
        withParameters(parameters) ==
            LET braced == expectPeek(tokens, parameters.pos, "LBRACE", parameters.errors)
            IN  IF ~parameters.ok THEN Parsed(NoNode, parameters.pos, parameters.errors)
                ELSE IF ~braced.ok THEN Parsed(NoNode, braced.pos, braced.errors)
                ELSE made(parameters,
                          parseBlockStatement(tokens, braced.pos, braced.errors))
        opened == expectPeek(tokens, pos, "LPAREN", errors)
    IN  IF ~opened.ok THEN Parsed(NoNode, opened.pos, opened.errors)
        ELSE withParameters(parseFunctionParameters(tokens, opened.pos, opened.errors))

parseListRest(tokens, pos, list, errors) ==
    LET following(e) == parseListRest(tokens, e.pos, Append(list, e.node), e.errors)
    IN  IF TypeAt(tokens, pos + 1) = "COMMA"
        THEN following(parseExpression(tokens, pos + 2, Precedence.LOWEST, errors))
        ELSE [list |-> list, pos |-> pos, errors |-> errors]

\* Expression list: the expressions between the current delimiter and end;
\* no list when end does not follow them.
parseExpressionList(tokens, pos, end, errors) ==
    LET closing(rest) ==
            LET closed == expectPeek(tokens, rest.pos, end, rest.errors)
            IN  [list |-> IF closed.ok THEN rest.list ELSE <<>>, ok |-> closed.ok,
                 pos |-> closed.pos, errors |-> closed.errors]
        following(first) ==
            closing(parseListRest(tokens, first.pos, <<first.node>>, first.errors))
    IN  IF TypeAt(tokens, pos + 1) = end
        THEN [list |-> <<>>, ok |-> TRUE, pos |-> pos + 1, errors |-> errors]
        ELSE following(parseExpression(tokens, pos + 1, Precedence.LOWEST, errors))

parseArrayLiteral(tokens, pos, errors) ==
    LET made(elements) ==
            Parsed(IF elements.ok THEN ArrayLiteral(elements.list) ELSE NoNode,
                   elements.pos, elements.errors)
    IN  made(parseExpressionList(tokens, pos, "RBRACKET", errors))

\* The prefix handler of the current token.
parsePrefix(tokens, pos, errors) ==
    LET type == TypeAt(tokens, pos)
    IN  CASE type = "IDENTIFIER" -> Parsed(Identifier(tokens[pos].Literal), pos, errors)
          [] type = "INT" -> parseIntegerLiteral(tokens, pos, errors)
          [] type = "STRING" -> Parsed(StringLiteral(tokens[pos].Literal), pos, errors)
          [] type \in {"TRUE", "FALSE"} ->
                Parsed(BooleanLiteral(type = "TRUE"), pos, errors)
          [] type \in {"BANG", "MINUS"} -> parsePrefixExpression(tokens, pos, errors)
          [] type = "LPAREN" -> parseGroupedExpression(tokens, pos, errors)
          [] type = "IF" -> parseIfExpression(tokens, pos, errors)
          [] type = "FUNCTION" -> parseFunctionLiteral(tokens, pos, errors)
          [] type = "LBRACKET" -> parseArrayLiteral(tokens, pos, errors)

parseInfixExpression(tokens, pos, left, errors) ==
    LET made(right) ==
            Parsed(InfixExpression(left, tokens[pos].Literal, right.node), right.pos,
                   right.errors)
    IN  made(parseExpression(tokens, pos + 1, precedences(TypeAt(tokens, pos)), errors))

parseCallExpression(tokens, pos, function, errors) ==
    LET made(arguments) ==
            Parsed(IF arguments.ok THEN CallExpression(function, arguments.list)
                   ELSE NoNode,
                   arguments.pos, arguments.errors)
    IN  made(parseExpressionList(tokens, pos, "RPAREN", errors))

parseIndexExpression(tokens, pos, left, errors) ==
    LET closing(index) ==
            LET closed == expectPeek(tokens, index.pos, "RBRACKET", index.errors)
            IN  Parsed(IF closed.ok THEN IndexExpression(left, index.node) ELSE NoNode,
                       closed.pos, closed.errors)
    IN  closing(parseExpression(tokens, pos + 1, Precedence.LOWEST, errors))

\* The infix handler of the current token, for the left expression.
parseInfix(tokens, pos, left, errors) ==
    CASE TypeAt(tokens, pos) = "LPAREN" -> parseCallExpression(tokens, pos, left, errors)
      [] TypeAt(tokens, pos) = "LBRACKET" -> parseIndexExpression(tokens, pos, left, errors)
      [] OTHER -> parseInfixExpression(tokens, pos, left, errors)

\* A variant that also goes on at a peek token of equal precedence.
parseInfixLoop_OnEqual(tokens, left, precedence) ==
    LET peek == TypeAt(tokens, left.pos + 1)
    IN  IF peek # "SEMICOLON" /\ precedence <= precedences(peek)
        THEN IF peek \notin InfixTypes THEN left
             ELSE parseInfixLoop(tokens,
                      parseInfix(tokens, left.pos + 1, left.node, left.errors),
                      precedence)
        ELSE left

\* The loop of parseExpression: while the peek token is no semicolon and
\* binds tighter than precedence, its infix handler takes the expression so
\* far as its left.
parseInfixLoop(tokens, left, precedence) ==
    LET peek == TypeAt(tokens, left.pos + 1)
    IN  IF peek # "SEMICOLON" /\ precedence < precedences(peek)
        THEN IF peek \notin InfixTypes THEN left
             ELSE parseInfixLoop(tokens,
                      parseInfix(tokens, left.pos + 1, left.node, left.errors),
                      precedence)
        ELSE left

parseExpression(tokens, pos, precedence, errors) ==
    IF TypeAt(tokens, pos) \notin PrefixTypes
    THEN Parsed(NoNode, pos,
                Append(errors, "no prefix parse function for " \o TypeAt(tokens, pos)
                               \o " found"))
    ELSE parseInfixLoop(tokens, parsePrefix(tokens, pos, errors), precedence)

\* The expression of a statement, and the semicolon after it if there is one.
parseValue(tokens, pos, errors) ==
    LET closing(e) ==
            Parsed(e.node,
                   IF TypeAt(tokens, e.pos + 1) = "SEMICOLON" THEN e.pos + 1 ELSE e.pos,
                   e.errors)
    IN  closing(parseExpression(tokens, pos, Precedence.LOWEST, errors))

parseLetStatement(tokens, pos, errors) ==
    LET named == expectPeek(tokens, pos, "IDENTIFIER", errors)
        assigned == expectPeek(tokens, named.pos, "ASSIGN", named.errors)
        made(value) ==
            Parsed(LetStatement(tokens[named.pos].Literal, value.node), value.pos,
                   value.errors)
    IN  IF ~named.ok THEN Parsed(NoNode, named.pos, named.errors)
        ELSE IF ~assigned.ok THEN Parsed(NoNode, assigned.pos, assigned.errors)
        ELSE made(parseValue(tokens, assigned.pos + 1, assigned.errors))

parseReturnStatement(tokens, pos, errors) ==
    LET made(value) == Parsed(ReturnStatement(value.node), value.pos, value.errors)
    IN  made(parseValue(tokens, pos + 1, errors))

parseExpressionStatement(tokens, pos, errors) ==
    LET made(value) == Parsed(ExpressionStatement(value.node), value.pos, value.errors)
    IN  made(parseValue(tokens, pos, errors))

parseStatement(tokens, pos, errors) ==
    CASE TypeAt(tokens, pos) = "LET" -> parseLetStatement(tokens, pos, errors)
      [] TypeAt(tokens, pos) = "RETURN" -> parseReturnStatement(tokens, pos, errors)
      [] OTHER -> parseExpressionStatement(tokens, pos, errors)

\* The top loop of ParseProgram from the current token on.
RECURSIVE parseStatements(_, _, _, _)
parseStatements(tokens, pos, statements, errors) ==
    LET following(s) ==
            parseStatements(tokens, s.pos + 1,
                IF s.node.kind = "nil" THEN statements ELSE Append(statements, s.node),
                s.errors)
    IN  IF TypeAt(tokens, pos) = "EOF"
        THEN [program |-> Program(statements), errors |-> errors]
        ELSE following(parseStatement(tokens, pos, errors))

ParseProgram(tokens) == parseStatements(tokens, 1, <<>>, <<>>)

\* strings.Join(parts, separator)
RECURSIVE Join(_, _)
Join(parts, separator) ==
    IF parts = <<>> THEN ""
    ELSE IF Len(parts) = 1 THEN parts[1]
    ELSE parts[1] \o separator \o Join(Tail(parts), separator)

\* node.String(); the string of no node is empty
RECURSIVE StringOf(_)
StringOf(node) ==
    CASE node.kind \in {"Program", "BlockStatement"} ->
            Join([i \in 1..Len(node.Statements) |-> StringOf(node.Statements[i])], "")
      [] node.kind = "LetStatement" ->
            "let " \o StringOf(node.Name) \o " = " \o StringOf(node.Value) \o ";"
      [] node.kind = "ReturnStatement" -> "return " \o StringOf(node.ReturnValue) \o ";"
      [] node.kind = "ExpressionStatement" -> StringOf(node.Expression)
      [] node.kind \in {"Identifier", "StringLiteral"} -> node.Value
      [] node.kind = "IntegerLiteral" -> Itoa(node.Value)
      [] node.kind = "Boolean" -> IF node.Value THEN "true" ELSE "false"
      [] node.kind = "PrefixExpression" ->
            "(" \o node.Operator \o StringOf(node.Right) \o ")"
      [] node.kind = "InfixExpression" ->
            "(" \o StringOf(node.Left) \o " " \o node.Operator \o " "
                \o StringOf(node.Right) \o ")"
      [] node.kind = "IfExpression" ->
            "if" \o StringOf(node.Condition) \o " " \o StringOf(node.Consequence)
                \o (IF node.Alternative.kind = "nil" THEN ""
                    ELSE "else " \o StringOf(node.Alternative))
      [] node.kind = "FunctionLiteral" ->
            "fn(" \o Join([i \in 1..Len(node.Parameters) |-> StringOf(node.Parameters[i])],
                          ", ")
                  \o ")" \o StringOf(node.Body)
      [] node.kind = "CallExpression" ->
            StringOf(node.Function) \o "("
                \o Join([i \in 1..Len(node.Arguments) |-> StringOf(node.Arguments[i])], ", ")
                \o ")"
      [] node.kind = "ArrayLiteral" ->
            "[" \o Join([i \in 1..Len(node.Elements) |-> StringOf(node.Elements[i])], ", ")
                \o "]"
      [] node.kind = "IndexExpression" ->
            "(" \o StringOf(node.Left) \o "[" \o StringOf(node.Index) \o "])"
      [] OTHER -> ""

---------------------------------------------------------------------------
(* Parsing expressions (C16).                                              *)

\* program = parser.New(lexer).ParseProgram(), for the lexer of the tokens
Parse(tokens) ==
    /\ status = "ready"
    /\ runs < MaxRuns
    /\ LET parsed == ParseProgram(tokens)
       IN  program' = parsed.program /\ reported' = parsed.errors
    /\ input' = tokens
    /\ runs' = runs + 1
    /\ UNCHANGED <<envs, heap, next, outcome, trace, applied>>
    /\ UNCHANGED status

\* The same for the source text of the lexemes.
ParseLexemes(lexemes) == Parse(Lexed(lexemes))

BinaryOperators == {"+", "-", "*", "/", "<", ">", "==", "!="}

\* The operand at a position of a chain: identifiers, integers and booleans.
Atoms == <<"a", "1", "true", "b", "2", "false">>

AtomAt(i) == <<Atoms[((i - 1) % Len(Atoms)) + 1]>>

\* operands[1] operators[1] operands[2] ... operands[k + 1]
RECURSIVE Chain(_, _)
Chain(operands, operators) ==
    IF operators = <<>> THEN operands[1]
    ELSE operands[1] \o <<operators[1]>> \o Chain(Tail(operands), Tail(operators))

OperatorLists == UNION {[1..k -> BinaryOperators] : k \in 1..MaxOperators}

Decorations == {<<"-">>, <<"!">>, <<"!", "-">>}

Wrappings == {"group", "call", "negated", "called"}

\* The tokens of an expression in parentheses, as the argument of a call,
\* negated in parentheses, or in parentheses and called.
Wrap(wrapping, tokens) ==
    CASE wrapping = "group" -> <<"(">> \o tokens \o <<")">>
      [] wrapping = "call" -> <<"add", "(">> \o tokens \o <<")">>
      [] wrapping = "negated" -> <<"-", "(">> \o tokens \o <<")">>
      [] wrapping = "called" -> <<"(">> \o tokens \o <<")", "(", ")">>

\* A chain of atoms.
ParseChain ==
    /\ runs = 0
    /\ \E operators \in OperatorLists :
           ParseLexemes(Chain([i \in 1..(Len(operators) + 1) |-> AtomAt(i)], operators))

\* A chain one operand of which has prefix operators.
ParseDecorated ==
    /\ runs = 0
    /\ \E operators \in OperatorLists, decoration \in Decorations :
           \E at \in 1..(Len(operators) + 1) :
               ParseLexemes(Chain([i \in 1..(Len(operators) + 1) |->
                              IF i = at THEN decoration \o AtomAt(i) ELSE AtomAt(i)],
                           operators))

\* A chain the operands from..to of which, with the operators between them,
\* are wrapped.
ParseWrapped ==
    /\ runs = 0
    /\ \E operators \in OperatorLists, wrapping \in Wrappings :
           \E from \in 1..(Len(operators) + 1) :
               \E to \in from..(Len(operators) + 1) :
                   LET inner == Chain([i \in 1..(to - from + 1) |-> AtomAt(from + i - 1)],
                                      SubSeq(operators, from, to - 1))
                   IN  ParseLexemes(Chain([i \in 1..(Len(operators) - (to - from) + 1) |->
                                      IF i < from THEN AtomAt(i)
                                      ELSE IF i = from THEN Wrap(wrapping, inner)
                                      ELSE AtomAt(i + (to - from))],
                                   SubSeq(operators, 1, from - 1)
                                       \o SubSeq(operators, to, Len(operators))))

\* a <op> add(<chain>, <chain>) <op> b: a call of two arguments in a chain.
ParseCall ==
    /\ runs = 0
    /\ \E first \in [1..1 -> BinaryOperators], second \in OperatorLists,
          around \in [1..2 -> {"+", "*", "<", "=="}] :
           /\ Len(second) < MaxOperators
           /\ ParseLexemes(Chain(<< AtomAt(1),
                             <<"add", "(">>
                                 \o Chain([i \in 1..2 |-> AtomAt(i + 1)], first)
                                 \o <<",">>
                                 \o Chain([i \in 1..(Len(second) + 1) |-> AtomAt(i + 3)],
                                          second)
                                 \o <<")">>,
                             AtomAt(6) >>, around))

\* <chain>; <chain> and <chain>; <chain>;
ParseStatements ==
    /\ runs = 0
    /\ \E first \in OperatorLists, second \in OperatorLists, closing \in {<<>>, <<";">>} :
           /\ Len(first) + Len(second) <= MaxOperators
           /\ ParseLexemes(Chain([i \in 1..(Len(first) + 1) |-> AtomAt(i)], first)
                    \o <<";">>
                    \o Chain([i \in 1..(Len(second) + 1) |-> <<"-">> \o AtomAt(i)], second)
                    \o closing)

\* The cases of TestOperatorPrecedenceParsing: the tokens of each input and
\* the rendering the test expects.
PrecedenceTests ==
    << [input |-> <<"-", "a", "*", "b">>, expected |-> "((-a) * b)"],
       [input |-> <<"!", "-", "a">>, expected |-> "(!(-a))"],
       [input |-> <<"a", "+", "b", "+", "c">>, expected |-> "((a + b) + c)"],
       [input |-> <<"a", "+", "b", "-", "c">>, expected |-> "((a + b) - c)"],
       [input |-> <<"a", "+", "b", "*", "c">>, expected |-> "(a + (b * c))"],
       [input |-> <<"a", "*", "b", "/", "c">>, expected |-> "((a * b) / c)"],
       [input |-> <<"a", "+", "b", "*", "c", "+", "d", "/", "e", "-", "f">>,
        expected |-> "(((a + (b * c)) + (d / e)) - f)"],
       [input |-> <<"3", "+", "4", ";", "-", "5", "*", "5">>,
        expected |-> "(3 + 4)((-5) * 5)"],
       [input |-> <<"5", ">", "4", "==", "3", "<", "4">>,
        expected |-> "((5 > 4) == (3 < 4))"],
       [input |-> <<"5", "<", "4", "!=", "3", ">", "4">>,
        expected |-> "((5 < 4) != (3 > 4))"],
       [input |-> <<"3", "+", "4", "*", "5", "==", "3", "*", "1", "+", "4", "*", "5">>,
        expected |-> "((3 + (4 * 5)) == ((3 * 1) + (4 * 5)))"],
       [input |-> <<"true">>, expected |-> "true"],
       [input |-> <<"false">>, expected |-> "false"],
       [input |-> <<"3", ">", "5", "==", "false">>, expected |-> "((3 > 5) == false)"],
       [input |-> <<"3", "<", "5", "==", "true">>, expected |-> "((3 < 5) == true)"],
       [input |-> <<"1", "+", "(", "2", "+", "3", ")", "+", "4">>,
        expected |-> "((1 + (2 + 3)) + 4)"],
       [input |-> <<"(", "5", "+", "5", ")", "*", "2">>, expected |-> "((5 + 5) * 2)"],
       [input |-> <<"2", "/", "(", "5", "+", "5", ")">>, expected |-> "(2 / (5 + 5))"],
       [input |-> <<"-", "(", "5", "+", "5", ")">>, expected |-> "(-(5 + 5))"],
       [input |-> <<"!", "(", "true", "==", "true", ")">>,
        expected |-> "(!(true == true))"],
       [input |-> <<"a", "+", "add", "(", "b", "*", "c", ")", "+", "d">>,
        expected |-> "((a + add((b * c))) + d)"],
       [input |-> <<"add", "(", "a", ",", "b", ",", "1", ",", "2", "*", "3", ",",
                    "4", "+", "5", ",", "add", "(", "6", ",", "7", "*", "8", ")", ")">>,
        expected |-> "add(a, b, 1, (2 * 3), (4 + 5), add(6, (7 * 8)))"],
       [input |-> <<"add", "(", "a", "+", "b", "+", "c", "*", "d", "/", "f", "+", "g",
                    ")">>,
        expected |-> "add((((a + b) + ((c * d) / f)) + g))"] >>

\* One case of TestOperatorPrecedenceParsing.
ParseTest ==
    /\ runs = 0
    /\ \E i \in 1..Len(PrecedenceTests) : ParseLexemes(PrecedenceTests[i].input)

\* The inputs of the other tests of the parser, each with the program the
\* test looks for.
Tested(lexemes, expression) ==
    [input |-> Lexed(lexemes), expected |-> Program(<<ExpressionStatement(expression)>>)]

TestedStatements(lexemes, statements) ==
    [input |-> Lexed(lexemes), expected |-> Program(statements)]

InfixTested == <<"+", "-", "*", "/", "<", ">", "==", "!=">>

XPlusY ==
    BlockStatement(<<ExpressionStatement(
        InfixExpression(Identifier("x"), "+", Identifier("y")))>>)

XLessY == InfixExpression(Identifier("x"), "<", Identifier("y"))

BlockOf(name) == BlockStatement(<<ExpressionStatement(Identifier(name))>>)

ParserTests ==
    << \* TestParseProgram
       TestedStatements(<<"let", "x", "=", "5", ";", "let", "y", "=", "10", ";",
                          "let", "foobar", "=", "838383", ";">>,
                        << LetStatement("x", IntegerLiteral(5)),
                           LetStatement("y", IntegerLiteral(10)),
                           LetStatement("foobar", IntegerLiteral(838383)) >>),
       \* TestIdentifierExpression, TestBooleanExpression,
       \* TestIntegerLiteralExpression
       Tested(<<"foobar">>, Identifier("foobar")),
       Tested(<<"false">>, BooleanLiteral(FALSE)),
       Tested(<<"true">>, BooleanLiteral(TRUE)),
       Tested(<<"5">>, IntegerLiteral(5)),
       \* TestStringLiteralExpression
       [input |-> <<StringToken("hello world")>>,
        expected |-> Program(<<ExpressionStatement(StringLiteral("hello world"))>>)],
       \* TestParsingPrefixExpressions
       Tested(<<"!", "5">>, PrefixExpression("!", IntegerLiteral(5))),
       Tested(<<"-", "15">>, PrefixExpression("-", IntegerLiteral(15))),
       Tested(<<"!", "true", ";">>, PrefixExpression("!", BooleanLiteral(TRUE))),
       Tested(<<"-", "false", ";">>, PrefixExpression("-", BooleanLiteral(FALSE))),
       \* TestIfExpression, TestIfElseExpression
       Tested(<<"if", "(", "x", "<", "y", ")", "{", "x", "}">>,
              IfExpression(XLessY, BlockOf("x"), NoNode)),
       Tested(<<"if", "(", "x", "<", "y", ")", "{", "x", "}", "else", "{", "y", "}">>,
              IfExpression(XLessY, BlockOf("x"), BlockOf("y"))),
       \* TestFunctionLiteralParsing, TestFunctionParameterParsing
       Tested(<<"fn", "(", "x", ",", "y", ")", "{", "x", "+", "y", ";", "}">>,
              FunctionLiteral(<<"x", "y">>, XPlusY)),
       Tested(<<"fn", "(", "x", ")", "{", "x", "+", "y", ";", "}">>,
              FunctionLiteral(<<"x">>, XPlusY)),
       Tested(<<"fn", "(", ")", "{", "x", "+", "y", ";", "}">>,
              FunctionLiteral(<<>>, XPlusY)),
       \* TestCallExpressionParsing
       Tested(<<"add", "(", "1", ",", "2", "*", "3", ",", "4", "+", "5", ")">>,
              CallExpression(Identifier("add"),
                  << IntegerLiteral(1),
                     InfixExpression(IntegerLiteral(2), "*", IntegerLiteral(3)),
                     InfixExpression(IntegerLiteral(4), "+", IntegerLiteral(5)) >>)),
       \* TestLetStatements
       TestedStatements(<<"let", "x", "=", "5", ";">>,
                        <<LetStatement("x", IntegerLiteral(5))>>),
       TestedStatements(<<"let", "y", "=", "true", ";">>,
                        <<LetStatement("y", BooleanLiteral(TRUE))>>),
       TestedStatements(<<"let", "foobar", "=", "y", ";">>,
                        <<LetStatement("foobar", Identifier("y"))>>),
       \* TestParsingInfixExpressions
       Tested(<<"true", "==", "true">>,
              InfixExpression(BooleanLiteral(TRUE), "==", BooleanLiteral(TRUE))),
       Tested(<<"true", "!=", "false">>,
              InfixExpression(BooleanLiteral(TRUE), "!=", BooleanLiteral(FALSE))),
       Tested(<<"false", "==", "false">>,
              InfixExpression(BooleanLiteral(FALSE), "==", BooleanLiteral(FALSE))) >>
    \o [i \in 1..Len(InfixTested) |->
           Tested(<<"5", InfixTested[i], "5">>,
                  InfixExpression(IntegerLiteral(5), InfixTested[i], IntegerLiteral(5)))]

\* One case of the other tests of the parser.
ParseOtherTest ==
    /\ runs = 0
    /\ \E i \in 1..Len(ParserTests) : Parse(ParserTests[i].input)

\* The program of TestString of package ast, from its source text, and
\* programs of the other statements and expressions that render.
RenderingTests ==
    << [input |-> <<"let", "x", "=", "y", ";">>, expected |-> "let x = y;"],
       [input |-> <<"return", "x", "+", "1", ";">>, expected |-> "return (x + 1);"],
       [input |-> <<"if", "(", "x", "<", "y", ")", "{", "x", "}", "else", "{", "y", "}">>,
        expected |-> "if(x < y) xelse y"],
       [input |-> <<"fn", "(", "x", ",", "y", ")", "{", "x", "+", "y", ";", "}">>,
        expected |-> "fn(x, y)(x + y)"],
       [input |-> <<"[", "1", ",", "2", "*", "3", "]", "[", "0", "]">>,
        expected |-> "([1, (2 * 3)][0])"] >>

ParseRenderingTest ==
    /\ runs = 0
    /\ \E i \in 1..Len(RenderingTests) : ParseLexemes(RenderingTests[i].input)

NextParse ==
    ParseChain \/ ParseDecorated \/ ParseWrapped \/ ParseCall \/ ParseStatements
        \/ ParseTest \/ ParseOtherTest \/ ParseRenderingTest

SpecParse == Init /\ [][NextParse]_vars

\* The fully parenthesized form, read off the tokens without the parser.
\* How many parentheses are open before position i.
Depth(tokens, i) ==
    Cardinality({j \in 1..(i - 1) : tokens[j] = "("})
        - Cardinality({j \in 1..(i - 1) : tokens[j] = ")"})

\* The positions outside every parenthesis that hold one of the literals.
Outside(tokens, literals) ==
    {i \in 1..Len(tokens) : tokens[i] \in literals /\ Depth(tokens, i) = 0}

\* The operator at i stands between two operands: an operand ends before it.
IsInfixAt(tokens, i) ==
    /\ i > 1
    /\ tokens[i] \in BinaryOperators
    /\ tokens[i - 1] \notin BinaryOperators \cup {"!", "(", ",", ";"}

\* The rung of an infix operator on the ladder of the specification.
Rung(operator) ==
    CASE operator \in {"==", "!="} -> 2
      [] operator \in {"<", ">"} -> 3
      [] operator \in {"+", "-"} -> 4
      [] operator \in {"*", "/"} -> 5

Largest(S) == CHOOSE i \in S : \A j \in S : j <= i

\* The pieces of tokens between the positions of S, in order.
RECURSIVE Pieces(_, _)
Pieces(tokens, S) ==
    IF S = {} THEN <<tokens>>
    ELSE Append(Pieces(SubSeq(tokens, 1, Largest(S) - 1), S \ {Largest(S)}),
                SubSeq(tokens, Largest(S) + 1, Len(tokens)))

RECURSIVE Parenthesized(_)
Parenthesized(tokens) ==
    LET infixes == {i \in Outside(tokens, BinaryOperators) : IsInfixAt(tokens, i)}
        loosest == {i \in infixes : \A j \in infixes : Rung(tokens[i]) <= Rung(tokens[j])}
        opening == Largest(Outside(tokens, {"("}))
        inner == SubSeq(tokens, opening + 1, Len(tokens) - 1)
        arguments == Pieces(inner, Outside(inner, {","}))
    IN  IF infixes # {}
        THEN \* the rightmost of the loosest operators is applied last
             "(" \o Parenthesized(SubSeq(tokens, 1, Largest(loosest) - 1))
                 \o " " \o tokens[Largest(loosest)] \o " "
                 \o Parenthesized(SubSeq(tokens, Largest(loosest) + 1, Len(tokens)))
                 \o ")"
        ELSE IF tokens[1] \in {"!", "-"}
        THEN "(" \o tokens[1] \o Parenthesized(Tail(tokens)) \o ")"
        ELSE IF Len(tokens) = 1
        THEN tokens[1]
        ELSE IF opening = 1
        THEN Parenthesized(inner)
        ELSE Parenthesized(SubSeq(tokens, 1, opening - 1)) \o "("
                 \o (IF inner = <<>> THEN ""
                     ELSE Join([i \in 1..Len(arguments) |-> Parenthesized(arguments[i])],
                               ", "))
                 \o ")"

\* The lexemes of tokens.
LexemesOf(tokens) == [i \in 1..Len(tokens) |-> tokens[i].Literal]

\* The tokens of the inputs the precedence ladder is stated for.
LadderTypes ==
    {"IDENTIFIER", "INT", "TRUE", "FALSE", "PLUS", "MINUS", "ASTERISK", "SLASH", "LT",
     "GT", "EQ", "NEQ", "BANG", "LPAREN", "RPAREN", "COMMA", "SEMICOLON"}

\* The statements of the input, without a closing semicolon.
StatementsOf(tokens) ==
    Pieces(IF tokens[Len(tokens)] = ";" THEN SubSeq(tokens, 1, Len(tokens) - 1)
           ELSE tokens,
           Outside(tokens, {";"}) \ {Len(tokens)})

Rendered(tokens) ==
    Join([i \in 1..Len(StatementsOf(tokens)) |-> Parenthesized(StatementsOf(tokens)[i])],
         "")

---------------------------------------------------------------------------
(* What a function application writes (C17): a session of the host with    *)
(* functions whose parameters and lets reuse the names of outer scopes.     *)

\* fn(v) { let x = v; let y = x + 1; y }: lets of names the host has bound
Setter ==
    FunctionLiteral(<<"v">>,
        BlockStatement(<< LetStatement("x", Identifier("v")),
                          LetStatement("y", InfixExpression(Identifier("x"), "+",
                                                            IntegerLiteral(1))),
                          ExpressionStatement(Identifier("y")) >>))

\* fn(x) { let y = x; y }: a parameter of a name the host has bound
Shadow ==
    FunctionLiteral(<<"x">>,
        BlockStatement(<< LetStatement("y", Identifier("x")),
                          ExpressionStatement(Identifier("y")) >>))

\* fn(y) { setter(y + 1); y }: a caller that is itself a function
Caller ==
    FunctionLiteral(<<"y">>,
        BlockStatement(<< ExpressionStatement(
                              CallExpression(Identifier("setter"),
                                  <<InfixExpression(Identifier("y"), "+",
                                                    IntegerLiteral(1))>>)),
                          ExpressionStatement(Identifier("y")) >>))

\* fn(x) { fn(v) { let x = v; let w = x; x } }: the closures it makes let a
\* name of their captured environment
Maker ==
    FunctionLiteral(<<"x">>,
        BlockStatement(<<ExpressionStatement(
            FunctionLiteral(<<"v">>,
                BlockStatement(<< LetStatement("x", Identifier("v")),
                                  LetStatement("w", Identifier("x")),
                                  ExpressionStatement(Identifier("x")) >>)))>>))

FrameFunctions == {"setter", "shadow", "caller"}

\* The arguments of the calls of a session.
FrameArguments == {3, 4}

\* The name the closure maker(a) is bound to.
MadeName(a) == "made" \o Itoa(a)

\* let x = 1; let y = 2; let setter = ..; let shadow = ..; let caller = ..;
\* let maker = ..
DefineFrames ==
    /\ runs = 0
    /\ Run(Program(<< LetStatement("x", IntegerLiteral(1)),
                      LetStatement("y", IntegerLiteral(2)),
                      LetStatement("setter", Setter),
                      LetStatement("shadow", Shadow),
                      LetStatement("caller", Caller),
                      LetStatement("maker", Maker) >>))

\* let made<a> = maker(a)
MakeFrame ==
    /\ Bound("maker")
    /\ runs < MaxCalls
    /\ \E a \in 0..MaxCaptured :
          /\ ~Bound(MadeName(a))
          /\ Run(Program(<<LetStatement(MadeName(a),
                   CallExpression(Identifier("maker"), <<IntegerLiteral(a)>>))>>))

\* f(v), for one of the functions of the session
CallFrame ==
    /\ Bound("maker")
    /\ runs < MaxCalls
    /\ \E f \in FrameFunctions, v \in FrameArguments :
          Run(Program(<<ExpressionStatement(
              CallExpression(Identifier(f), <<IntegerLiteral(v)>>))>>))

\* made<a>(v)
CallMade ==
    /\ Bound("maker")
    /\ runs < MaxCalls
    /\ \E a \in 0..MaxCaptured, v \in FrameArguments :
          /\ Bound(MadeName(a))
          /\ Run(Program(<<ExpressionStatement(
                 CallExpression(Identifier(MadeName(a)), <<IntegerLiteral(v)>>))>>))

\* let x = f(v): the host itself lets a name again, with the value of a call
LetFrame ==
    /\ Bound("maker")
    /\ runs < MaxCalls
    /\ \E f \in FrameFunctions, v \in FrameArguments :
          Run(Program(<<LetStatement("x",
              CallExpression(Identifier(f), <<IntegerLiteral(v)>>))>>))

NextFrame == DefineFrames \/ MakeFrame \/ CallFrame \/ CallMade \/ LetFrame

SpecFrame == Init /\ [][NextFrame]_vars

\* The names the statements of a block let.
LetNames(block) ==
    {block.Statements[i].Name.Value :
        i \in {j \in 1..Len(block.Statements) : block.Statements[j].kind = "LetStatement"}}

\* The applications of user functions among the applications, in order.
RECURSIVE FunctionsApplied(_)
FunctionsApplied(applications) ==
    IF applications = <<>> THEN <<>>
    ELSE IF applications[1].function.type = FUNCTION_OBJ
    THEN <<applications[1]>> \o FunctionsApplied(Tail(applications))
    ELSE FunctionsApplied(Tail(applications))

\* C17: over every evaluation of a session, each application of a function
\* got one new environment, enclosed by the function's own, that holds its
\* parameters with the arguments and the names its body lets, and nothing
\* else; every environment that existed before keeps every binding, but for
\* the name the host's own let statement sets in the host's environment.
C17_ApplicationWritesOnlyItsOwnEnvironment ==
    [][(runs > 0 /\ runs' = runs + 1) =>
          LET calls == FunctionsApplied(applied')
              let == IF program'.Statements[1].kind = "LetStatement"
                     THEN {program'.Statements[1].Name.Value} ELSE {}
          IN  /\ status' = "ready"
              /\ Len(envs') = Len(envs) + Len(calls)
              /\ calls # <<>>
              /\ \A e \in 1..Len(envs) :
                    /\ envs'[e].outer = envs[e].outer
                    /\ DOMAIN envs'[e].store
                           = DOMAIN envs[e].store \cup (IF e = GlobalEnv THEN let ELSE {})
                    /\ \A n \in DOMAIN envs[e].store :
                          (e = GlobalEnv /\ n \in let)
                              \/ envs'[e].store[n] = envs[e].store[n]
              /\ \A c \in 1..Len(calls) :
                    LET fresh == envs'[Len(envs) + c]
                        fn == calls[c].function
                    IN  /\ fresh.outer = fn.Env
                        /\ fn.Env <= Len(envs) + c - 1
                        /\ DOMAIN fresh.store
                               = {fn.Parameters[i].Value : i \in 1..Len(fn.Parameters)}
                                     \cup LetNames(fn.Body)
                        /\ \A i \in 1..Len(fn.Parameters) :
                              fn.Parameters[i].Value \notin LetNames(fn.Body) =>
                                  fresh.store[fn.Parameters[i].Value] = calls[c].args[i]
    ]_vars

\* The closure made1, whose captured environment holds x = 1, was called
\* with 4 and let x = 4 in its own environment; before it caller(3) ran
\* setter under it: the host still has x = 1 and y = 2, the captured
\* environment x = 1, and the caller's environment y = 3 where setter's
\* has y = 5.
C17_Witness ==
    /\ runs = 4
    /\ Bound(MadeName(1))
    /\ SameNode(program.Statements[1],
                ExpressionStatement(CallExpression(Identifier(MadeName(1)),
                                                   <<IntegerLiteral(4)>>)))
    /\ outcome.type = INTEGER_OBJ /\ outcome.Value = 4
    /\ envs[GlobalEnv].store["x"].Value = 1
    /\ envs[GlobalEnv].store["y"].Value = 2
    /\ LET captured == envs[GlobalEnv].store[MadeName(1)].Env
       IN  /\ captured # GlobalEnv
           /\ envs[captured].store["x"].Value = 1
           /\ DOMAIN envs[captured].store = {"x"}
           /\ envs[Len(envs)].outer = captured
           /\ envs[Len(envs)].store["x"].Value = 4
           /\ envs[Len(envs)].store["w"].Value = 4
    /\ \E e \in 2..(Len(envs) - 2) :
          /\ DOMAIN envs[e].store = {"y"}
          /\ envs[e].store["y"].Value = 3
          /\ envs[e].outer = GlobalEnv
          /\ DOMAIN envs[e + 1].store = {"v", "x", "y"}
          /\ envs[e + 1].store["y"].Value = 5
          /\ envs[e + 1].store["x"].Value = 4

---------------------------------------------------------------------------
(* Where a ReturnValue gets to (C18): an if expression whose block returns, *)
(* used where a value is expected.                                          *)

ReturningForms == {"then", "else", "nested"}

\* An if expression that evaluates to the ReturnValue of its return statement.
ReturningIf(form, v) ==
    LET returning == BlockStatement(<<ReturnStatement(IntegerLiteral(v))>>)
        other == BlockStatement(<<ExpressionStatement(IntegerLiteral(0))>>)
    IN  CASE form = "then" -> IfExpression(BooleanLiteral(TRUE), returning, NoNode)
          [] form = "else" -> IfExpression(BooleanLiteral(FALSE), other, returning)
          [] form = "nested" ->
                IfExpression(BooleanLiteral(TRUE),
                    BlockStatement(<<ExpressionStatement(
                        IfExpression(BooleanLiteral(TRUE), returning, NoNode))>>),
                    NoNode)

ValuePlaces ==
    {"statement", "let value", "return value", "prefix operand", "left operand",
     "right operand", "indexed", "index", "element", "argument", "builtin argument"}

\* The statements that use the expression e at the given place.
Used(place, e) ==
    CASE place = "statement" -> <<ExpressionStatement(e)>>
      [] place = "let value" -> <<LetStatement("q", e), ExpressionStatement(IntegerLiteral(0))>>
      [] place = "return value" -> <<ReturnStatement(e)>>
      [] place = "prefix operand" -> <<ExpressionStatement(PrefixExpression("!", e))>>
      [] place = "left operand" ->
            <<ExpressionStatement(InfixExpression(e, "==", IntegerLiteral(1)))>>
      [] place = "right operand" ->
            <<ExpressionStatement(InfixExpression(IntegerLiteral(1), "==", e))>>
      [] place = "indexed" ->
            <<ExpressionStatement(IndexExpression(e, IntegerLiteral(0)))>>
      [] place = "index" ->
            <<ExpressionStatement(IndexExpression(ArrayLiteral(<<IntegerLiteral(1)>>), e))>>
      [] place = "element" -> <<ExpressionStatement(ArrayLiteral(<<IntegerLiteral(1), e>>))>>
      [] place = "argument" ->
            <<ExpressionStatement(CallExpression(
                FunctionLiteral(<<"p">>,
                    BlockStatement(<<ExpressionStatement(IntegerLiteral(0))>>)),
                <<e>>))>>
      [] place = "builtin argument" ->
            <<ExpressionStatement(CallExpression(Identifier("len"), <<e>>))>>

\* The statements as a program of their own.
UseInProgram ==
    \E form \in ReturningForms, v \in 0..MaxInt, place \in ValuePlaces :
        /\ runs = 0
        /\ Run(Program(Used(place, ReturningIf(form, v))))

\* The statements as the body of a function that the program calls.
UseInFunction ==
    \E form \in ReturningForms, v \in 0..MaxInt, place \in ValuePlaces :
        /\ runs = 0
        /\ Run(Program(<<ExpressionStatement(CallExpression(
               FunctionLiteral(<<>>, BlockStatement(Used(place, ReturningIf(form, v)))),
               <<>>))>>))

NextWrapper == UseInProgram \/ UseInFunction

SpecWrapper == Init /\ [][NextWrapper]_vars

IsReturnValue(obj) == obj.type = RETURN_VALUE_OBJ

NoBindingIsReturnValue ==
    \A e \in 1..Len(envs) : \A n \in DOMAIN envs[e].store : ~IsReturnValue(envs[e].store[n])

NoElementIsReturnValue ==
    \A h \in 1..Len(heap) : \A i \in 1..Len(heap[h]) : ~IsReturnValue(heap[h][i])

NoArgumentIsReturnValue ==
    \A c \in 1..Len(applied) : \A i \in 1..Len(applied[c].args) :
        ~IsReturnValue(applied[c].args[i])

\* The operands of an operator node.
OperandsOf(node) ==
    CASE node.kind = "PrefixExpression" -> <<node.Right>>
      [] node.kind = "InfixExpression" -> <<node.Left, node.Right>>
      [] node.kind = "IndexExpression" -> <<node.Left, node.Index>>
      [] OTHER -> <<>>

\* No operator whose evaluation returned had an operand that evaluated, in
\* the operator's environment, to a ReturnValue.
NoOperandIsReturnValue ==
    \A t \in 1..Len(trace) :
        \A o \in 1..Len(OperandsOf(trace[t].node)) :
            \A u \in 1..(t - 1) :
                (SameNode(trace[u].node, OperandsOf(trace[t].node)[o])
                     /\ trace[u].env = trace[t].env)
                    => ~IsReturnValue(trace[u].val)

NoResultIsReturnValue ==
    /\ ~IsReturnValue(outcome)
    /\ \A t \in 1..Len(trace) :
          trace[t].node.kind \in {"Program", "CallExpression"} => ~IsReturnValue(trace[t].val)

\* C18: no environment binding, no Array element and no argument of an
\* application is a ReturnValue, no prefix, infix or index operator gets
\* one as an operand, and Eval of a Program or a CallExpression never
\* yields one.
C18_ReturnValueNeverEscapes ==
    /\ NoBindingIsReturnValue
    /\ NoElementIsReturnValue
    /\ NoArgumentIsReturnValue
    /\ NoOperandIsReturnValue
    /\ NoResultIsReturnValue

---------------------------------------------------------------------------
(* Calls with more or fewer arguments than parameters (C19).               *)

\* fn(p1, .., pn) { [p1, .., pn] }
Collector(n) ==
    FunctionLiteral([i \in 1..n |-> ParameterName(i)],
        BlockStatement(<<ExpressionStatement(
            ArrayLiteral([i \in 1..n |-> Identifier(ParameterName(i))]))>>))

\* The i-th argument of a call: v + i, written as a sum so that its
\* evaluation shows in the trace.
Given(v, i) == InfixExpression(IntegerLiteral(v), "+", IntegerLiteral(i))

GivenTo(v, n) == [i \in 1..n |-> Given(v, i)]

CalleeForms == {"literal", "name", "inner"}

\* The program that calls a function of n parameters with k arguments.
ArityProgram(form, n, k, v) ==
    CASE form = "literal" ->
            Program(<<ExpressionStatement(CallExpression(Collector(n), GivenTo(v, k)))>>)
      [] form = "name" ->
            Program(<< LetStatement("f", Collector(n)),
                       ExpressionStatement(
                           CallExpression(Identifier("f"), GivenTo(v, k))) >>)
      [] form = "inner" ->
            Program(<< LetStatement("f", Collector(n)),
                       ExpressionStatement(CallExpression(
                           FunctionLiteral(<<>>,
                               BlockStatement(<<ExpressionStatement(
                                   CallExpression(Identifier("f"), GivenTo(v, k)))>>)),
                           <<>>)) >>)

\* As many arguments as parameters.
CallExact ==
    /\ runs = 0
    /\ \E form \in CalleeForms, n \in 0..(MaxArgs + 1), v \in 0..MaxInt :
          Run(ArityProgram(form, n, n, v))

\* Fewer arguments than parameters.
CallWithFewer ==
    /\ runs = 0
    /\ \E form \in CalleeForms, n \in 0..(MaxArgs + 1), k \in 0..(MaxArgs + 1),
          v \in 0..MaxInt :
          k < n /\ Run(ArityProgram(form, n, k, v))

\* More arguments than parameters.
CallWithMore ==
    /\ runs = 0
    /\ \E form \in CalleeForms, n \in 0..(MaxArgs + 1), k \in 0..(MaxArgs + 1),
          v \in 0..MaxInt :
          k > n /\ Run(ArityProgram(form, n, k, v))

\* A host that goes on after a call if it still runs.
CallAfter ==
    /\ runs > 0
    /\ runs < 2
    /\ \E n \in 0..1, k \in 0..1 : Run(ArityProgram("literal", n, k, runs))

\* let r = fn(p1) { [p1] }(v + 1, v + 2, v + 3); and then a call with one
\* argument too few
MoreThenFewer(v) ==
    Program(<< LetStatement("r", CallExpression(Collector(1), GivenTo(v, 3))),
               ExpressionStatement(
                   CallExpression(Collector(MaxArgs + 1), GivenTo(v, MaxArgs))) >>)

CallMoreThenFewer ==
    /\ runs = 0
    /\ \E v \in 0..MaxInt : Run(MoreThenFewer(v))

NextArity == CallExact \/ CallWithFewer \/ CallWithMore \/ CallAfter \/ CallMoreThenFewer

SpecArity == Init /\ [][NextArity]_vars

\* The application of the collector: the last one that began.
Collecting == applied[Len(applied)]

\* C19: a function of n parameters applied to k arguments, all of them
\* values.  With k < n the evaluation traps once the k arguments are
\* evaluated: the host gets no result, no Error was made, the body was
\* not entered and the new environment binds the first k parameters.  With k >= n every argument is evaluated and handed over,
\* the new environment binds just the n parameters to the first n
\* arguments, and the call yields what the body yields with them.
C19_ArityIsUnchecked ==
    /\ \A v \in 0..MaxInt :
          (runs > 0 /\ SameNode(program, MoreThenFewer(v))) =>
              /\ status = "panicked"
              /\ outcome = NIL
              /\ Bound("r")
              /\ envs[GlobalEnv].store["r"].type = ARRAY_OBJ
              /\ envs[GlobalEnv].store["r"].Elements.len = 1
              /\ ElementsOf(heap, envs[GlobalEnv].store["r"].Elements)[1].Value = v + 1
              /\ Len(Collecting.args) = MaxArgs
              /\ \A t \in 1..Len(trace) : ~isError(trace[t].val)
    /\ \A form \in CalleeForms, n \in 0..(MaxArgs + 1), k \in 0..(MaxArgs + 1),
          v \in 0..MaxInt :
        (runs > 0 /\ SameNode(program, ArityProgram(form, n, k, v))) =>
            /\ \A i \in 1..k : Evaluated(Given(v, i))
            /\ Len(Collecting.args) = k
            /\ \A i \in 1..k :
                  /\ Collecting.args[i].type = INTEGER_OBJ
                  /\ Collecting.args[i].Value = v + i
            /\ \A t \in 1..Len(trace) : ~isError(trace[t].val)
            /\ k < n =>
                  /\ status = "panicked"
                  /\ outcome = NIL
                  /\ DOMAIN envs[Len(envs)].store = {ParameterName(i) : i \in 1..k}
                  /\ \A i \in 1..k :
                        SameObject(envs[Len(envs)].store[ParameterName(i)],
                                   Collecting.args[i])
                  /\ \A t \in 1..Len(trace) : trace[t].node.kind # "ArrayLiteral"
            /\ k >= n =>
                  /\ status = "ready"
                  /\ outcome.type = ARRAY_OBJ
                  /\ outcome.Elements.len = n
                  /\ \A i \in 1..n :
                        SameObject(ElementsOf(heap, outcome.Elements)[i], Collecting.args[i])
                  /\ DOMAIN envs[Len(envs)].store = {ParameterName(i) : i \in 1..n}
                  /\ \A i \in 1..n :
                        SameObject(envs[Len(envs)].store[ParameterName(i)],
                                   Collecting.args[i])

\* fn(p1) { [p1] } was called with three arguments, all three were
\* evaluated and r is [8]; then the call of a function of MaxArgs + 1
\* parameters with MaxArgs arguments trapped.
C19_Witness ==
    /\ runs = 1
    /\ SameNode(program, MoreThenFewer(7))
    /\ status = "panicked"
    /\ Evaluated(Given(7, 3))
    /\ Evaluated(Given(7, MaxArgs))
    /\ ElementsOf(heap, envs[GlobalEnv].store["r"].Elements)[1].Value = 8
    /\ DOMAIN envs[2].store = {"p1"}
    /\ Len(envs) = 3
    /\ DOMAIN envs[3].store = {ParameterName(i) : i \in 1..MaxArgs}
    /\ Len(Collecting.args) = MaxArgs

=============================================================================
